---- MODULE Spec2Model ----
(***************************************************************************)
(* Beth Yw? Welsh government data parser: Measure, Area, Areas (registry), *)
(* the three populate parsers, the dispatcher and the file loop of         *)
(* BethYw::run, modelled as state machines.                                *)
(*                                                                         *)
(* A std::string is a sequence of one-character strings, so that           *)
(* ::tolower, std::stoi, std::stod and the case-insensitive regex of the   *)
(* area filter are computed character by character.  A double is an exact  *)
(* fraction or one of the IEEE specials NaN, +inf, -inf.                    *)
(***************************************************************************)
EXTENDS Integers, Sequences, FiniteSets, TLC

VARIABLES
    measure,    \* SpecMeasure: one Measure object
    mcall,      \* SpecMeasure: the last call made on it
    area,       \* SpecArea: one Area object
    acall,      \* SpecArea: the last call made on it, with its outcome
    aprev,      \* SpecArea: the Area before that call
    areas,      \* Spec, SpecRun: areas_container of the Areas object
    prev,       \* Spec: areas_container before the last call
    call,       \* Spec: the last call and its arguments
    thrown,     \* Spec: the exception the last call ended with
    repeat,     \* Spec: the last call had the arguments of the call before it
    rowlog,     \* Spec: areas_container after each row or record of the last populate
    nops,       \* Spec: number of calls made
    filters,    \* Spec, SpecRun: the filters of this run and the populate overload used
    runPc,      \* SpecRun: position in BethYw::run
    runFiles,   \* SpecRun: the areas file and the datasets to import
    runIdx,     \* SpecRun: index of the next dataset in loadDatasets
    attempted,  \* SpecRun: the files whose import was started
    reported,   \* SpecRun: the errors written to std::cerr
    output,     \* SpecRun, SpecOutput: the document toJSON returned, written to std::cout
    args        \* SpecArgs: the command line (cxxopts::ParseResult)

measureVars == <<measure, mcall>>
areaVars == <<area, acall, aprev>>
regVars == <<areas, prev, call, thrown, repeat, rowlog, nops, filters>>
runVars == <<runPc, runFiles, runIdx, attempted, reported, output, args>>
vars == <<measure, mcall, area, acall, aprev, areas, prev, call, thrown, repeat,
          rowlog, nops, filters, runPc, runFiles, runIdx, attempted, reported, output,
          args>>

(***************************************************************************)
(* Bounds of the model.                                                    *)
(***************************************************************************)
MaxYear == 3
MaxValue == 2

Years == 1..MaxYear
Values == 0..MaxValue

(***************************************************************************)
(* Characters and strings.                                                 *)
(***************************************************************************)
UpperChars == <<"A","B","C","D","E","F","G","H","I","J","K","L","M",
                "N","O","P","Q","R","S","T","U","V","W","X","Y","Z">>
LowerChars == <<"a","b","c","d","e","f","g","h","i","j","k","l","m",
                "n","o","p","q","r","s","t","u","v","w","x","y","z">>
DigitChars == <<"0","1","2","3","4","5","6","7","8","9">>

IsUpper(c) == \E i \in DOMAIN UpperChars : UpperChars[i] = c
IsLowerAlpha(c) == \E i \in DOMAIN LowerChars : LowerChars[i] = c
IsDigit(c) == \E i \in DOMAIN DigitChars : DigitChars[i] = c
DigitVal(c) == (CHOOSE i \in DOMAIN DigitChars : DigitChars[i] = c) - 1

\* ::tolower on one character
tolower(c) ==
    IF IsUpper(c) THEN LowerChars[CHOOSE i \in DOMAIN UpperChars : UpperChars[i] = c]
    ELSE c

\* std::transform(s.begin(), s.end(), s.begin(), ::tolower)
ToLowerStr(s) == [i \in 1..Len(s) |-> tolower(s[i])]

\* length of the longest prefix of s made of decimal digits
DigitPrefixLen(s) ==
    IF s = <<>> \/ ~IsDigit(s[1]) THEN 0
    ELSE CHOOSE k \in 1..Len(s) :
            /\ \A i \in 1..k : IsDigit(s[i])
            /\ (k < Len(s) => ~IsDigit(s[k + 1]))

RECURSIVE DigitsValue(_, _)
DigitsValue(s, k) ==
    IF k = 0 THEN 0 ELSE 10 * DigitsValue(s, k - 1) + DigitVal(s[k])

\* std::stoi / std::stod on a string of this alphabet: the longest numeric
\* prefix is converted; no conversion at all is std::invalid_argument.
stoi(s) ==
    IF DigitPrefixLen(s) = 0 THEN [ok |-> FALSE, val |-> 0]
    ELSE [ok |-> TRUE, val |-> DigitsValue(s, DigitPrefixLen(s))]

stod(s) == stoi(s)

(***************************************************************************)
(* Doubles.                                                                *)
(***************************************************************************)
DFin(n, d) == [k |-> "fin", n |-> n, d |-> d]
DInt(x) == DFin(x, 1)
DNaN == [k |-> "nan", n |-> 0, d |-> 1]
DInf == [k |-> "inf", n |-> 0, d |-> 1]
DNegInf == [k |-> "ninf", n |-> 0, d |-> 1]
Abs(x) == IF x < 0 THEN -x ELSE x

\* x / y in IEEE-754 for integral x and y >= 0
DDiv(x, y) ==
    IF y = 0 THEN (IF x = 0 THEN DNaN ELSE IF x > 0 THEN DInf ELSE DNegInf)
    ELSE DFin(x, y)
DMulInt(a, c) == IF a.k = "fin" THEN DFin(a.n * c, a.d) ELSE a
\* operator== on doubles: NaN equals nothing
DEq(a, b) ==
    \/ a.k = "fin" /\ b.k = "fin" /\ a.n * b.d = b.n * a.d
    \/ a.k = b.k /\ a.k \in {"inf", "ninf"}

(***************************************************************************)
(* Measure (measure.cpp).  values is the std::map<unsigned int, double>,   *)
(* kept as the sequence of its (year, value) pairs in iteration order.     *)
(***************************************************************************)
Measure(codename, label) ==
    [code |-> ToLowerStr(codename), label |-> label, values |-> <<>>]

Measure_getCodename(m) == m.code
Measure_getLabel(m) == m.label
Measure_setLabel(m, label) == [m EXCEPT !.label = label]
Measure_size(m) == Len(m.values)

MeasureYears(m) == {m.values[i].year : i \in 1..Len(m.values)}
MeasureHasYear(m, key) == key \in MeasureYears(m)
MeasureIndexOf(m, key) == CHOOSE i \in 1..Len(m.values) : m.values[i].year = key

\* Measure::getValue: std::out_of_range when the year is absent
Measure_getValue(m, key) ==
    IF MeasureHasYear(m, key)
    THEN [ok |-> TRUE, val |-> m.values[MeasureIndexOf(m, key)].value]
    ELSE [ok |-> FALSE, val |-> 0]

\* a container that keeps insertion order instead of key order
MapInsert_unordered(values, key, value) ==
    Append(values, [year |-> key, value |-> value])

\* std::map::insert of a new key: the pair goes after every smaller key
MapInsert(values, key, value) ==
    LET p == Cardinality({i \in 1..Len(values) : values[i].year < key})
    IN  SubSeq(values, 1, p) \o <<[year |-> key, value |-> value]>>
        \o SubSeq(values, p + 1, Len(values))

Measure_setValue(m, key, value) ==
    IF MeasureHasYear(m, key)
    THEN [m EXCEPT !.values[MeasureIndexOf(m, key)].value = value]
    ELSE [m EXCEPT !.values = MapInsert(m.values, key, value)]

RECURSIVE MeasureSetAll(_, _, _)
MeasureSetAll(m, vals, i) ==
    IF i > Len(vals) THEN m
    ELSE MeasureSetAll(Measure_setValue(m, vals[i].year, vals[i].value), vals, i + 1)

\* Measure::operator=
Measure_assign(this, other) ==
    MeasureSetAll([this EXCEPT !.code = Measure_getCodename(other),
                               !.label = Measure_getLabel(other)],
                  other.values, 1)

Measure_getDifference(m) ==
    IF Measure_size(m) > 1
    THEN LET first == m.values[1].value
             last == m.values[Len(m.values)].value
         IN  DInt(last - first)
    ELSE DInt(0)

Measure_getDifferenceAsPercentage(m) ==
    IF Measure_size(m) > 1
    THEN LET first == m.values[1].value
             last == m.values[Len(m.values)].value
         IN  DMulInt(DDiv(last - first, Abs(first)), 100)
    ELSE DInt(0)

RECURSIVE RollingSum(_, _)
RollingSum(vals, i) ==
    IF i > Len(vals) THEN 0 ELSE vals[i].value + RollingSum(vals, i + 1)

Measure_getAverage(m) == DDiv(RollingSum(m.values, 1), Len(m.values))

\* Measure::operator==
Measure_eq(this, rhs) ==
    /\ this.code = Measure_getCodename(rhs)
    /\ this.label = Measure_getLabel(rhs)
    /\ Measure_size(this) = Measure_size(rhs)
    /\ \A i \in 1..Len(this.values) :
          /\ Measure_getValue(rhs, this.values[i].year).ok
          /\ this.values[i].value = Measure_getValue(rhs, this.values[i].year).val

(***************************************************************************)
(* std::map with string keys, as a function on its finite key set.         *)
(***************************************************************************)
EmptyMap == [x \in {} |-> x]
MapHas(f, key) == key \in DOMAIN f
MapPut(f, key, v) == [x \in (DOMAIN f) \cup {key} |-> IF x = key THEN v ELSE f[x]]

(***************************************************************************)
(* Area (area.cpp).                                                        *)
(***************************************************************************)
Area(local_authority_code) ==
    [area_code |-> local_authority_code, names |-> EmptyMap, measures |-> EmptyMap]

Area_getLocalAuthorityCode(a) == a.area_code

\* Area::getName: std::out_of_range when the language is absent
Area_getName(a, lang) ==
    IF MapHas(a.names, lang) THEN [ok |-> TRUE, val |-> a.names[lang]]
    ELSE [ok |-> FALSE, val |-> <<>>]

\* std::regex_match(lang, "^[a-z]{3}$")
MatchesISO6393(lang) == Len(lang) = 3 /\ \A i \in 1..3 : IsLowerAlpha(lang[i])

\* a setName that tests the lowercased code and stores the code as given
Area_setName_asGiven(a, lang, name) ==
    IF ~MatchesISO6393(ToLowerStr(lang)) THEN [ok |-> FALSE, area |-> a]
    ELSE [ok |-> TRUE, area |-> [a EXCEPT !.names = MapPut(a.names, lang, name)]]

\* a setName that stores the name without testing the language code
Area_setName_noCheck(a, lang, name) ==
    [ok |-> TRUE, area |-> [a EXCEPT !.names = MapPut(a.names, ToLowerStr(lang), name)]]

\* Area::setName: std::invalid_argument (ok = FALSE) leaves the Area as it was
Area_setName(a, lang, name) ==
    LET lower == ToLowerStr(lang)
    IN  IF ~MatchesISO6393(lower) THEN [ok |-> FALSE, area |-> a]
        ELSE [ok |-> TRUE, area |-> [a EXCEPT !.names = MapPut(a.names, lower, name)]]

\* a lookup that forgets to lowercase the key
Area_getMeasure_caseSensitive(a, key) ==
    IF MapHas(a.measures, key)
    THEN [ok |-> TRUE, val |-> a.measures[key], key |-> key]
    ELSE [ok |-> FALSE, val |-> Measure(<<>>, <<>>), key |-> key]

\* Area::getMeasure: std::out_of_range when no Measure is stored under the
\* lowercased key
Area_getMeasure(a, key) ==
    LET lower_key == ToLowerStr(key)
    IN  IF MapHas(a.measures, lower_key)
        THEN [ok |-> TRUE, val |-> a.measures[lower_key], key |-> lower_key]
        ELSE [ok |-> FALSE, val |-> Measure(<<>>, <<>>), key |-> lower_key]

\* a setMeasure that puts the new Measure in the place of the stored one
Area_setMeasure_replace(a, key, m) ==
    [a EXCEPT !.measures = MapPut(a.measures, ToLowerStr(key), m)]

Area_setMeasure(a, key, m) ==
    LET tmp == ToLowerStr(key)
    IN  IF Area_getMeasure(a, tmp).ok
        THEN [a EXCEPT !.measures[tmp] = Measure_assign(a.measures[tmp], m)]
        ELSE [a EXCEPT !.measures = MapPut(a.measures, tmp, m)]

Area_size(a) == Cardinality(DOMAIN a.measures)

RECURSIVE AssignNames(_, _, _)
AssignNames(this, other, langs) ==
    IF langs = {} THEN this
    ELSE LET l == CHOOSE x \in langs : \A y \in langs : Len(x) <= Len(y)
         IN  AssignNames(Area_setName(this, l, other.names[l]).area, other, langs \ {l})

RECURSIVE AssignMeasures(_, _, _)
AssignMeasures(this, other, keys) ==
    IF keys = {} THEN this
    ELSE LET k == CHOOSE x \in keys : \A y \in keys : Len(x) <= Len(y)
         IN  AssignMeasures(Area_setMeasure(this, k, other.measures[k]), other, keys \ {k})

\* Area::operator=
Area_assign(this, other) ==
    LET coded == [this EXCEPT !.area_code = Area_getLocalAuthorityCode(other)]
        named == AssignNames(coded, other, DOMAIN other.names)
    IN  AssignMeasures(named, other, DOMAIN other.measures)

\* Area::operator==
Area_eq(this, rhs) ==
    LET match_codes == Area_getLocalAuthorityCode(this) = Area_getLocalAuthorityCode(rhs)
        match_names ==
            /\ Cardinality(DOMAIN this.names) = Cardinality(DOMAIN rhs.names)
            /\ \A l \in DOMAIN this.names :
                  Area_getName(rhs, l).ok /\ this.names[l] = Area_getName(rhs, l).val
        match_data ==
            /\ Area_size(this) = Area_size(rhs)
            /\ \A c \in DOMAIN this.measures :
                  /\ Area_getMeasure(rhs, c).ok
                  /\ Measure_eq(Area_getMeasure(rhs, c).val, this.measures[c])
    IN  match_codes /\ match_names /\ match_data

(***************************************************************************)
(* Filters.  A pointer to a filter is null or points to a set of strings;  *)
(* a pointer to a year filter is null or points to a (start, end) pair.    *)
(***************************************************************************)
NullFilter == [null |-> TRUE, set |-> {}]
Filter(S) == [null |-> FALSE, set |-> S]
NullYears == [null |-> TRUE, start |-> 0, end |-> 0]
YearsFilter(s, e) == [null |-> FALSE, start |-> s, end |-> e]

\* std::regex_match(s, "^.*" + code + ".*$", icase) for a code over letters,
\* digits and the metacharacter "." (any one character)
RegexMatchAnywhere(code, s) ==
    \E start \in 0..(Len(s) - Len(code)) :
        \A i \in 1..Len(code) :
            \/ code[i] = "."
            \/ tolower(code[i]) = tolower(s[start + i])

\* a predicate that looks at the code of the Area and never at its names
checkIfAreaMatchesFilter_codeOnly(a, filter) ==
    IF filter.null \/ filter.set = {} THEN TRUE
    ELSE \E code \in filter.set : RegexMatchAnywhere(code, a.area_code)

checkIfAreaMatchesFilter(a, filter) ==
    IF filter.null \/ filter.set = {} THEN TRUE
    ELSE \E code \in filter.set :
            \/ RegexMatchAnywhere(code, a.area_code)
            \/ \E l \in DOMAIN a.names : RegexMatchAnywhere(code, a.names[l])

\* regex.assign("^.*" + code + ".*$") throws std::regex_error for a pattern
\* that is not well formed: over this alphabet, one with an open parenthesis
ValidRegex(code) == \A i \in 1..Len(code) : code[i] # "("

\* checkIfAreaMatchesFilter assigns the pattern of every token before it
\* returns, so it throws whenever a non-empty filter holds such a token
checkIfAreaMatchesFilterThrows(filter) ==
    ~filter.null /\ filter.set # {} /\ \E code \in filter.set : ~ValidRegex(code)


(***************************************************************************)
(* Areas (areas.cpp): areas_container is the std::map<std::string, Area>.  *)
(***************************************************************************)
Areas_getArea(reg, auth_code) ==
    IF MapHas(reg, auth_code) THEN [ok |-> TRUE, val |-> reg[auth_code]]
    ELSE [ok |-> FALSE, val |-> Area(<<>>)]

\* a setArea that replaces the stored Area instead of merging into it
Areas_setArea_replace(reg, auth_code, a) == MapPut(reg, auth_code, a)

Areas_setArea(reg, auth_code, a) ==
    IF Areas_getArea(reg, auth_code).ok
    THEN [reg EXCEPT ![auth_code] = Area_assign(reg[auth_code], a)]
    ELSE MapPut(reg, auth_code, a)

Areas_size(reg) == Cardinality(DOMAIN reg)

(***************************************************************************)
(* Errors.  An ingestion returns the registry it leaves, the exception it  *)
(* ended with (kind "none" when it returned) and the registry after each   *)
(* data row or record it processed.                                        *)
(***************************************************************************)
NoErr == [kind |-> "none", what |-> ""]
Err(kind, what) == [kind |-> kind, what |-> what]
Outcome(reg, err, log) == [areas |-> reg, err |-> err, log |-> log]
RegexError == Err("regex_error", "regex_error")

\* std::getline(line_stream, value, delimiter) for the i-th field of a line:
\* past the last field the extraction fails and value keeps what it held
GetField(fields, i, stale) == IF i <= Len(fields) THEN fields[i] ELSE stale

Str_eng == <<"e", "n", "g">>
Str_cym == <<"c", "y", "m">>

(***************************************************************************)
(* Areas::populateFromAuthorityCodeCSV.  A CSV stream is its header line   *)
(* and its data lines, each line the sequence of its comma-separated       *)
(* fields.                                                                 *)
(***************************************************************************)
AuthorityCodeCandidate(fields) ==
    LET code == GetField(fields, 1, <<>>)
        eng == GetField(fields, 2, code)
        cym == GetField(fields, 3, eng)
        a0 == Area(code)
        a1 == Area_setName(a0, Str_eng, eng).area
    IN  Area_setName(a1, Str_cym, cym).area

\* a row step that tests the filter on the stored Area when there is one
AuthorityCodeRow_filterStored(reg, fields, areasFilter) ==
    LET a == AuthorityCodeCandidate(fields)
        code == Area_getLocalAuthorityCode(a)
        tested == IF Areas_getArea(reg, code).ok THEN reg[code] ELSE a
    IN  IF checkIfAreaMatchesFilter(tested, areasFilter)
        THEN Areas_setArea(reg, code, a)
        ELSE reg

AuthorityCodeRow(reg, fields, areasFilter) ==
    LET a == AuthorityCodeCandidate(fields)
        load_all == areasFilter.null \/ areasFilter.set = {}
    IN  IF ~load_all
        THEN IF checkIfAreaMatchesFilter(a, areasFilter)
             THEN Areas_setArea(reg, Area_getLocalAuthorityCode(a), a)
             ELSE reg
        ELSE Areas_setArea(reg, Area_getLocalAuthorityCode(a), a)

RECURSIVE AuthorityCodeRows(_, _, _, _, _)
AuthorityCodeRows(reg, rows, i, areasFilter, log) ==
    IF i > Len(rows) THEN Outcome(reg, NoErr, log)
    ELSE IF checkIfAreaMatchesFilterThrows(areasFilter)
    THEN Outcome(reg, RegexError, Append(log, reg))
    ELSE LET next == AuthorityCodeRow(reg, rows[i], areasFilter)
         IN  AuthorityCodeRows(next, rows, i + 1, areasFilter, Append(log, next))

\* a parser that merges the data lines before it looks at the header
populateFromAuthorityCodeCSV_lateCheck(reg, is, cols, areasFilter) ==
    IF ~({"AUTH_CODE", "AUTH_NAME_ENG", "AUTH_NAME_CYM"} \subseteq DOMAIN cols)
    THEN Outcome(reg, Err("out_of_range", "Not enough entries in cols"), <<>>)
    ELSE LET merged == AuthorityCodeRows(reg, is.rows, 1, areasFilter, <<>>)
         IN  IF is.header # <<cols["AUTH_CODE"], cols["AUTH_NAME_ENG"], cols["AUTH_NAME_CYM"]>>
             THEN Outcome(merged.areas, Err("runtime_error", "Malformed File!"), merged.log)
             ELSE merged

populateFromAuthorityCodeCSV(reg, is, cols, areasFilter) ==
    LET h1 == GetField(is.header, 1, <<>>)
        h2 == GetField(is.header, 2, h1)
        h3 == GetField(is.header, 3, h2)
    IN  IF ~({"AUTH_CODE", "AUTH_NAME_ENG", "AUTH_NAME_CYM"} \subseteq DOMAIN cols)
        THEN Outcome(reg, Err("out_of_range", "Not enough entries in cols"), <<>>)
        ELSE IF \/ h1 # cols["AUTH_CODE"]
                \/ h2 # cols["AUTH_NAME_ENG"]
                \/ h3 # cols["AUTH_NAME_CYM"]
        THEN Outcome(reg, Err("runtime_error", "Malformed File!"), <<>>)
        ELSE AuthorityCodeRows(reg, is.rows, 1, areasFilter, <<>>)


(***************************************************************************)
(* Areas::populateFromAuthorityByYearCSV.                                  *)
(*                                                                         *)
(* values[it.first] is std::vector::operator[] with no bounds check: for a *)
(* data line with fewer values than the header has years the read is       *)
(* undefined behaviour.  ub is what that read does in this run: it yields  *)
(* some double (kind "garbage") or the process dies (kind "crash").        *)
(***************************************************************************)
\* the fields a while (std::getline(line_stream, v, ',')) loop reads after the
\* first one: an empty field at the very end of the line ends the loop
LoopFields(fields) ==
    LET n == Len(fields)
        last == IF n >= 2 /\ fields[n] = <<>> THEN n - 1 ELSE n
    IN  SubSeq(fields, 2, last)

AllConvert(strs) == \A i \in 1..Len(strs) : stod(strs[i]).ok
ConvertAll(strs) == [i \in 1..Len(strs) |-> stod(strs[i]).val]

\* a year test without the "all years" sentinel
YearInFilter_noSentinel(year, yearsFilter) ==
    yearsFilter.null \/ (year <= yearsFilter.end /\ year >= yearsFilter.start)

YearInFilter(year, yearsFilter) ==
    LET load_all_years == yearsFilter.null \/ yearsFilter.end = 0
    IN  load_all_years \/ (year <= yearsFilter.end /\ year >= yearsFilter.start)

RECURSIVE AllowedYears(_, _, _)
AllowedYears(years, i, yearsFilter) ==
    IF i > Len(years) THEN <<>>
    ELSE (IF YearInFilter(years[i], yearsFilter)
          THEN <<[idx |-> i - 1, year |-> years[i]]>> ELSE <<>>)
         \o AllowedYears(years, i + 1, yearsFilter)

\* the body of the loop over allowed_years for one entry
AuthorityByYearCell(reg, code, measure_code, measure_label, it, values, areasFilter, ub) ==
    LET load_all_areas == areasFilter.null \/ areasFilter.set = {}
    IN  IF ~Areas_getArea(reg, code).ok THEN [areas |-> reg, err |-> NoErr]
        ELSE LET a == reg[code]
             IN  IF checkIfAreaMatchesFilterThrows(areasFilter)
                 THEN [areas |-> reg, err |-> RegexError]
                 ELSE IF ~(load_all_areas \/ checkIfAreaMatchesFilter(a, areasFilter))
                 THEN [areas |-> reg, err |-> NoErr]
                 ELSE IF it.idx >= Len(values) /\ ub.kind = "crash"
                 THEN [areas |-> reg, err |-> Err("crash", "vector subscript out of range")]
                 ELSE LET v == IF it.idx < Len(values) THEN values[it.idx + 1] ELSE ub.val
                          got == Area_getMeasure(a, measure_code)
                          tmp_measure == Measure_setValue(Measure(measure_code, measure_label),
                                                          it.year, v)
                          a2 == IF got.ok
                                THEN [a EXCEPT !.measures[got.key] =
                                                   Measure_setValue(got.val, it.year, v)]
                                ELSE Area_setMeasure(a, Measure_getCodename(tmp_measure),
                                                     tmp_measure)
                      IN  [areas |-> [reg EXCEPT ![code] = a2], err |-> NoErr]

RECURSIVE AuthorityByYearCells(_, _, _, _, _, _, _, _, _)
AuthorityByYearCells(reg, code, measure_code, measure_label, allowed, j, values, areasFilter, ub) ==
    IF j > Len(allowed) THEN [areas |-> reg, err |-> NoErr]
    ELSE LET r == AuthorityByYearCell(reg, code, measure_code, measure_label,
                                      allowed[j], values, areasFilter, ub)
         IN  IF r.err.kind # "none" THEN r
             ELSE AuthorityByYearCells(r.areas, code, measure_code, measure_label,
                                       allowed, j + 1, values, areasFilter, ub)

\* one data line: every value is converted before anything is written
AuthorityByYearRow(reg, fields, measure_code, measure_label, allowed, areasFilter, ub) ==
    LET current_area_code == GetField(fields, 1, <<>>)
        cells == LoopFields(fields)
    IN  IF ~AllConvert(cells)
        THEN [areas |-> reg, err |-> Err("invalid_argument", "stod")]
        ELSE LET r == AuthorityByYearCells(reg, current_area_code, measure_code,
                                           measure_label, allowed, 1, ConvertAll(cells),
                                           areasFilter, ub)
             IN  [areas |-> r.areas, err |-> r.err]

RECURSIVE AuthorityByYearRows(_, _, _, _, _, _, _, _, _)
AuthorityByYearRows(reg, rows, i, measure_code, measure_label, allowed, areasFilter, ub, log) ==
    IF i > Len(rows) THEN Outcome(reg, NoErr, log)
    ELSE LET r == AuthorityByYearRow(reg, rows[i], measure_code, measure_label,
                                     allowed, areasFilter, ub)
         IN  IF r.err.kind # "none" THEN Outcome(r.areas, r.err, Append(log, r.areas))
             ELSE AuthorityByYearRows(r.areas, rows, i + 1, measure_code, measure_label,
                                      allowed, areasFilter, ub, Append(log, r.areas))

\* a check that lets every file through
AuthorityByYearShouldLoad_always(cols, measuresFilter) == TRUE

\* the check of the measures filter made before anything is read
AuthorityByYearShouldLoad(cols, measuresFilter) ==
    IF measuresFilter.null \/ measuresFilter.set = {} THEN TRUE
    ELSE \E it \in measuresFilter.set :
            ToLowerStr(cols["SINGLE_MEASURE_CODE"]) = ToLowerStr(it)

populateFromAuthorityByYearCSV(reg, is, cols, areasFilter, measuresFilter, yearsFilter, ub) ==
    IF /\ ~(measuresFilter.null \/ measuresFilter.set = {})
       /\ "SINGLE_MEASURE_CODE" \notin DOMAIN cols
    THEN Outcome(reg, Err("out_of_range", "Not enough columns in cols!"), <<>>)
    ELSE IF ~AuthorityByYearShouldLoad(cols, measuresFilter)
    THEN Outcome(reg, NoErr, <<>>)
    ELSE IF ~({"SINGLE_MEASURE_CODE", "SINGLE_MEASURE_NAME", "AUTH_CODE"} \subseteq DOMAIN cols)
    THEN Outcome(reg, Err("out_of_range", "map::at"), <<>>)
    ELSE IF GetField(is.header, 1, <<>>) # cols["AUTH_CODE"]
    THEN Outcome(reg, Err("runtime_error", "Malformed file!"), <<>>)
    ELSE LET heads == LoopFields(is.header)
         IN  IF \E i \in 1..Len(heads) : ~stoi(heads[i]).ok
             THEN Outcome(reg, Err("invalid_argument", "stoi"), <<>>)
             ELSE AuthorityByYearRows(reg, is.rows, 1,
                     cols["SINGLE_MEASURE_CODE"], cols["SINGLE_MEASURE_NAME"],
                     AllowedYears([i \in 1..Len(heads) |-> stoi(heads[i]).val], 1, yearsFilter),
                     areasFilter, ub, <<>>)


(***************************************************************************)
(* Areas::populateFromWelshStatsJSON.  A JSON stream either does not parse *)
(* (bad) or is a document whose "value" array is a sequence of objects,    *)
(* each a map from key to a JSON string [t: "string", s] or number         *)
(* [t: "number", n].  A key the object lacks reads as null.                *)
(***************************************************************************)
JStr(s) == [t |-> "string", s |-> s, n |-> 0]
JNum(n) == [t |-> "number", s |-> <<>>, n |-> n]

\* std::string x = data[key]: nlohmann type_error unless a string is there
JsonIsString(data, key) == key \in DOMAIN data /\ data[key].t = "string"
JsonIsNumber(data, key) == key \in DOMAIN data /\ data[key].t = "number"

ColsNotEnough == Err("out_of_range", "Not enough columns in cols!")
JsonTypeError == Err("json_exception", "type_error")
NoFields == [code |-> <<>>, eng |-> <<>>, year |-> 0, value |-> 0,
             mcode |-> <<>>, mlabel |-> <<>>]

\* lines 422-459: the fields of one record, or the exception raised first
WelshStatsExtract(data, cols) ==
    LET Fail(e) == [err |-> e, f |-> NoFields]
        has(c) == c \in DOMAIN cols
    IN  IF ~has("AUTH_CODE") THEN Fail(ColsNotEnough)
        ELSE IF ~JsonIsString(data, cols["AUTH_CODE"]) THEN Fail(JsonTypeError)
        ELSE IF ~has("AUTH_NAME_ENG") THEN Fail(ColsNotEnough)
        ELSE IF ~JsonIsString(data, cols["AUTH_NAME_ENG"]) THEN Fail(JsonTypeError)
        ELSE IF ~has("YEAR") THEN Fail(ColsNotEnough)
        ELSE IF ~JsonIsString(data, cols["YEAR"]) THEN Fail(JsonTypeError)
        ELSE IF ~stoi(data[cols["YEAR"]].s).ok THEN Fail(Err("invalid_argument", "stoi"))
        ELSE IF ~has("VALUE") THEN Fail(ColsNotEnough)
        ELSE IF JsonIsString(data, cols["VALUE"]) /\ ~stod(data[cols["VALUE"]].s).ok
        THEN Fail(Err("invalid_argument", "stod"))
        ELSE IF ~JsonIsString(data, cols["VALUE"]) /\ ~JsonIsNumber(data, cols["VALUE"])
        THEN Fail(JsonTypeError)
        ELSE LET perRecord == has("MEASURE_CODE") /\ has("MEASURE_NAME")
                 single == has("SINGLE_MEASURE_CODE") /\ has("SINGLE_MEASURE_NAME")
             IN  IF perRecord /\ ~(/\ JsonIsString(data, cols["MEASURE_CODE"])
                                   /\ JsonIsString(data, cols["MEASURE_NAME"]))
                 THEN Fail(JsonTypeError)
                 ELSE IF ~perRecord /\ ~single THEN Fail(ColsNotEnough)
                 ELSE [err |-> NoErr,
                       f |-> [code |-> data[cols["AUTH_CODE"]].s,
                              eng |-> data[cols["AUTH_NAME_ENG"]].s,
                              year |-> stoi(data[cols["YEAR"]].s).val,
                              value |-> IF JsonIsString(data, cols["VALUE"])
                                        THEN stod(data[cols["VALUE"]].s).val
                                        ELSE data[cols["VALUE"]].n,
                              mcode |-> ToLowerStr(IF perRecord
                                                   THEN data[cols["MEASURE_CODE"]].s
                                                   ELSE cols["SINGLE_MEASURE_CODE"]),
                              mlabel |-> IF perRecord THEN data[cols["MEASURE_NAME"]].s
                                         ELSE cols["SINGLE_MEASURE_NAME"]]]

\* lines 461-479
WelshStatsShouldLoad(f, measuresFilter, yearsFilter) ==
    LET load_all_measures == measuresFilter.null \/ measuresFilter.set = {}
    IN  /\ YearInFilter(f.year, yearsFilter)
        /\ load_all_measures
           \/ \E it \in measuresFilter.set : ToLowerStr(it) = f.mcode

\* a merge that tests the area filter on a new Area only
WelshStatsMerge_newAreaOnly(reg, f, areasFilter) ==
    LET load_all_areas == areasFilter.null \/ areasFilter.set = {}
        new_measure == Measure_setValue(Measure(f.mcode, f.mlabel), f.year, f.value)
    IN  IF Areas_getArea(reg, f.code).ok
        THEN [reg EXCEPT ![f.code] =
                 IF Area_getMeasure(reg[f.code], f.mcode).ok
                 THEN [reg[f.code] EXCEPT !.measures[f.mcode] =
                          Measure_setValue(reg[f.code].measures[f.mcode], f.year, f.value)]
                 ELSE Area_setMeasure(reg[f.code], Measure_getCodename(new_measure), new_measure)]
        ELSE LET new_area == Area_setName(Area(f.code), Str_eng, f.eng).area
             IN  IF load_all_areas \/ checkIfAreaMatchesFilter(new_area, areasFilter)
                 THEN Areas_setArea(reg, f.code,
                         Area_setMeasure(new_area, Measure_getCodename(new_measure), new_measure))
                 ELSE reg

\* a merge that passes every record to setArea, its English name included
WelshStatsMerge_setAreaAlways(reg, f, areasFilter) ==
    LET new_measure == Measure_setValue(Measure(f.mcode, f.mlabel), f.year, f.value)
        new_area == Area_setName(Area(f.code), Str_eng, f.eng).area
        tested == IF Areas_getArea(reg, f.code).ok THEN reg[f.code] ELSE new_area
    IN  IF checkIfAreaMatchesFilter(tested, areasFilter)
        THEN Areas_setArea(reg, f.code,
                Area_setMeasure(new_area, Measure_getCodename(new_measure), new_measure))
        ELSE reg

\* lines 481-514
WelshStatsMerge(reg, f, areasFilter) ==
    LET load_all_areas == areasFilter.null \/ areasFilter.set = {}
        new_measure == Measure_setValue(Measure(f.mcode, f.mlabel), f.year, f.value)
    IN  IF Areas_getArea(reg, f.code).ok
        THEN LET a == reg[f.code]
                 got == Area_getMeasure(a, f.mcode)
             IN  IF load_all_areas \/ checkIfAreaMatchesFilter(a, areasFilter)
                 THEN IF got.ok
                      THEN [reg EXCEPT ![f.code].measures[got.key] =
                                           Measure_setValue(got.val, f.year, f.value)]
                      ELSE [reg EXCEPT ![f.code] =
                               Area_setMeasure(a, Measure_getCodename(new_measure), new_measure)]
                 ELSE reg
        ELSE LET new_area == Area_setName(Area(f.code), Str_eng, f.eng).area
             IN  IF load_all_areas \/ checkIfAreaMatchesFilter(new_area, areasFilter)
                 THEN Areas_setArea(reg, f.code,
                         Area_setMeasure(new_area, Measure_getCodename(new_measure), new_measure))
                 ELSE reg

WelshStatsRecord(reg, data, cols, areasFilter, measuresFilter, yearsFilter) ==
    LET x == WelshStatsExtract(data, cols)
    IN  IF x.err.kind # "none" THEN [areas |-> reg, err |-> x.err]
        ELSE IF ~WelshStatsShouldLoad(x.f, measuresFilter, yearsFilter)
        THEN [areas |-> reg, err |-> NoErr]
        ELSE IF checkIfAreaMatchesFilterThrows(areasFilter)
        THEN [areas |-> reg, err |-> RegexError]
        ELSE [areas |-> WelshStatsMerge(reg, x.f, areasFilter), err |-> NoErr]

RECURSIVE WelshStatsRecords(_, _, _, _, _, _, _, _)
WelshStatsRecords(reg, recs, i, cols, areasFilter, measuresFilter, yearsFilter, log) ==
    IF i > Len(recs) THEN Outcome(reg, NoErr, log)
    ELSE LET r == WelshStatsRecord(reg, recs[i], cols, areasFilter, measuresFilter, yearsFilter)
         IN  IF r.err.kind # "none" THEN Outcome(r.areas, r.err, Append(log, r.areas))
             ELSE WelshStatsRecords(r.areas, recs, i + 1, cols, areasFilter,
                                    measuresFilter, yearsFilter, Append(log, r.areas))

populateFromWelshStatsJSON(reg, is, cols, areasFilter, measuresFilter, yearsFilter) ==
    IF is.bad THEN Outcome(reg, Err("json_exception", "parse_error"), <<>>)
    ELSE WelshStatsRecords(reg, is.value, 1, cols, areasFilter, measuresFilter,
                           yearsFilter, <<>>)

(***************************************************************************)
(* Areas::populate, both overloads.  A caught std::runtime_error or        *)
(* std::out_of_range is thrown again as it is; anything else passes.       *)
(***************************************************************************)
UnexpectedDataType == Err("runtime_error", "Areas::populate: Unexpected data type")

\* the exceptions that derive from std::runtime_error or std::out_of_range
DerivedFrom(kind) ==
    IF kind = "regex_error" THEN "runtime_error" ELSE kind

\* catch (std::runtime_error &e1) { throw e1; }: the exception thrown is a
\* copy of static type std::runtime_error, whatever class was caught
Rethrow(out) == [out EXCEPT !.err.kind = DerivedFrom(out.err.kind)]

Areas_populate(reg, is, type, cols, areasFilter, measuresFilter, yearsFilter, ub) ==
    CASE type = "AuthorityCodeCSV" ->
            Rethrow(populateFromAuthorityCodeCSV(reg, is, cols, areasFilter))
      [] type = "AuthorityByYearCSV" ->
            Rethrow(populateFromAuthorityByYearCSV(reg, is, cols, areasFilter, measuresFilter,
                                                   yearsFilter, ub))
      [] type = "WelshStatsJSON" ->
            Rethrow(populateFromWelshStatsJSON(reg, is, cols, areasFilter, measuresFilter,
                                               yearsFilter))
      [] OTHER -> Rethrow(Outcome(reg, UnexpectedDataType, <<>>))

Areas_populateNoFilters(reg, is, type, cols, ub) ==
    CASE type = "AuthorityCodeCSV" ->
            Rethrow(populateFromAuthorityCodeCSV(reg, is, cols, NullFilter))
      [] type = "AuthorityByYearCSV" ->
            Rethrow(populateFromAuthorityByYearCSV(reg, is, cols, NullFilter, NullFilter,
                                                   NullYears, ub))
      [] type = "WelshStatsJSON" ->
            Rethrow(populateFromWelshStatsJSON(reg, is, cols, NullFilter, NullFilter, NullYears))
      [] OTHER -> Rethrow(Outcome(reg, UnexpectedDataType, <<>>))


(***************************************************************************)
(* Areas::toJSON.  A nlohmann::json value is null, a string, a number or   *)
(* an object [t: "object", members], members being the std::map from key   *)
(* to value.  toJSON returns the dump of a document; the model keeps the   *)
(* document the text denotes ("{}" is the empty object).                   *)
(***************************************************************************)
JNull == [t |-> "null", s |-> <<>>, n |-> 0]
JObject(members) == [t |-> "object", members |-> members]

\* basic_json::emplace: a null value becomes an object first; a key that is
\* there already keeps its value
JsonEmplace(j, key, value) ==
    IF j.t = "null" THEN JObject(MapPut(EmptyMap, key, value))
    ELSE IF MapHas(j.members, key) THEN j
    ELSE JObject(MapPut(j.members, key, value))

\* std::to_string of an unsigned int
RECURSIVE to_string(_)
to_string(n) ==
    IF n < 10 THEN <<DigitChars[n + 1]>>
    ELSE to_string(n \div 10) \o <<DigitChars[(n % 10) + 1]>>

\* the order of std::string keys in a std::map, by character code
CharCode(c) ==
    IF IsDigit(c) THEN 48 + DigitVal(c)
    ELSE IF IsUpper(c) THEN 64 + (CHOOSE i \in DOMAIN UpperChars : UpperChars[i] = c)
    ELSE IF IsLowerAlpha(c) THEN 96 + (CHOOSE i \in DOMAIN LowerChars : LowerChars[i] = c)
    ELSE 32

RECURSIVE StringLess(_, _)
StringLess(s, t) ==
    IF t = <<>> THEN FALSE
    ELSE IF s = <<>> THEN TRUE
    ELSE IF CharCode(Head(s)) # CharCode(Head(t)) THEN CharCode(Head(s)) < CharCode(Head(t))
    ELSE StringLess(Tail(s), Tail(t))

FirstKey(keys) == CHOOSE k \in keys : \A k2 \in keys \ {k} : StringLess(k, k2)

\* Measure::getValuesAsJSON
RECURSIVE ValuesAsJSON(_, _, _)
ValuesAsJSON(json_values, values, i) ==
    IF i > Len(values) THEN json_values
    ELSE ValuesAsJSON(JsonEmplace(json_values, to_string(values[i].year), JNum(values[i].value)),
                      values, i + 1)

Measure_getValuesAsJSON(m) == ValuesAsJSON(JNull, m.values, 1)

Str_names == <<"n", "a", "m", "e", "s">>
Str_measures == <<"m", "e", "a", "s", "u", "r", "e", "s">>

RECURSIVE NamesAsJSON(_, _, _)
NamesAsJSON(names, a, langs) ==
    IF langs = {} THEN names
    ELSE NamesAsJSON(JsonEmplace(names, FirstKey(langs), JStr(a.names[FirstKey(langs)])),
                     a, langs \ {FirstKey(langs)})

RECURSIVE MeasuresAsJSON(_, _, _)
MeasuresAsJSON(measures, a, keys) ==
    IF keys = {} THEN measures
    ELSE MeasuresAsJSON(JsonEmplace(measures, FirstKey(keys),
                                    Measure_getValuesAsJSON(a.measures[FirstKey(keys)])),
                        a, keys \ {FirstKey(keys)})

\* to_json(json &j, const Area &a)
to_json(j, a) ==
    LET names == NamesAsJSON(JNull, a, DOMAIN a.names)
        named == JsonEmplace(JNull, Str_names, names)
        area_as_json ==
            IF DOMAIN a.measures # {}
            THEN JsonEmplace(named, Str_measures, MeasuresAsJSON(JNull, a, DOMAIN a.measures))
            ELSE named
    IN  JsonEmplace(j, Area_getLocalAuthorityCode(a), area_as_json)

RECURSIVE AreasAsJSON(_, _, _)
AreasAsJSON(j, reg, keys) ==
    IF keys = {} THEN j
    ELSE AreasAsJSON(to_json(j, reg[FirstKey(keys)]), reg, keys \ {FirstKey(keys)})

\* Areas::toJSON: a document that dumps as "null" is returned as "{}"
Areas_toJSON(reg) ==
    LET j == AreasAsJSON(JNull, reg, DOMAIN reg)
    IN  IF j = JNull THEN JObject(EmptyMap) ELSE j

(***************************************************************************)
(* Strings used as inputs.                                                 *)
(***************************************************************************)
Str_W1 == <<"W", "1">>
Str_W2 == <<"W", "2">>
Str_Test == <<"T", "e", "s", "t">>
Str_Prawf == <<"P", "r", "a", "w", "f">>
Str_Foo == <<"F", "o", "o">>
Str_Bar == <<"B", "a", "r">>
Str_test == <<"t", "e", "s", "t">>
Str_w1 == <<"w", "1">>
Str_zz == <<"z", "z">>
Str_pop == <<"p", "o", "p">>
Str_Pop == <<"P", "o", "p">>
Str_POP == <<"P", "O", "P">>
Str_dens == <<"d", "e", "n", "s">>
Str_Population == <<"P", "o", "p", "u", "l", "a", "t", "i", "o", "n">>
Str_Density == <<"D", "e", "n", "s", "i", "t", "y">>
Str_ENG == <<"E", "N", "G">>
Str_en == <<"e", "n">>
Str_e1g == <<"e", "1", "g">>

WithValues(m, pairs) == MeasureSetAll(m, pairs, 1)
YV(y, v) == [year |-> y, value |-> v]

(***************************************************************************)
(* Defaults of the variables a specification does not use.                 *)
(***************************************************************************)
NoStream == [header |-> <<>>, rows |-> <<>>, bad |-> FALSE, value |-> <<>>]
NoUB == [kind |-> "garbage", val |-> 0]
NoCall == [op |-> "none", key |-> <<>>, a |-> Area(<<>>), is |-> NoStream, type |-> "",
           cols |-> EmptyMap, ub |-> NoUB]
NoFilters == [overload |-> 6, af |-> NullFilter, mf |-> NullFilter, yf |-> NullYears]

MeasureIdle == measure = Measure(<<>>, <<>>) /\ mcall = [op |-> "none", key |-> 0, value |-> 0]
AreaIdle == area = Area(<<>>) /\ aprev = Area(<<>>)
            /\ acall = [op |-> "none", key |-> <<>>, m |-> Measure(<<>>, <<>>), ok |-> TRUE]
RegIdle == /\ areas = EmptyMap /\ prev = EmptyMap /\ call = NoCall /\ thrown = NoErr
           /\ repeat = FALSE /\ rowlog = <<>> /\ nops = 0 /\ filters = NoFilters
NoOutput == [t |-> "none"]
NoArg == [given |-> FALSE, values |-> <<>>]
NoArgs == [datasets |-> NoArg, areas |-> NoArg, measures |-> NoArg]
RunIdle == /\ runPc = "none" /\ runFiles = <<>> /\ runIdx = 0
           /\ attempted = {} /\ reported = <<>> /\ output = NoOutput
           /\ args = NoArgs

(***************************************************************************)
(* SpecMeasure: one Measure under setValue, setLabel and operator=.        *)
(***************************************************************************)
MeasureInputs ==
    {WithValues(Measure(c, l), ps) :
        c \in {Str_Pop, Str_dens}, l \in {Str_Population},
        ps \in {<<>>, <<YV(2, 1)>>, <<YV(1, MaxValue), YV(MaxYear, 0)>>}}

InitMeasure ==
    /\ \E c \in {Str_Pop, Str_dens}, l \in {Str_Population, Str_Density} :
          measure = Measure(c, l)
    /\ mcall = [op |-> "Measure", key |-> 0, value |-> 0]
    /\ AreaIdle /\ RegIdle /\ RunIdle

CallMeasureSetValue ==
    \E key \in Years, value \in Values :
        /\ measure' = Measure_setValue(measure, key, value)
        /\ mcall' = [op |-> "setValue", key |-> key, value |-> value]
        /\ UNCHANGED <<areaVars, regVars, runVars>>

CallMeasureSetLabel ==
    \E l \in {Str_Population, Str_Density} :
        /\ measure' = Measure_setLabel(measure, l)
        /\ mcall' = [op |-> "setLabel", key |-> 0, value |-> 0]
        /\ UNCHANGED <<areaVars, regVars, runVars>>

CallMeasureAssign ==
    \E other \in MeasureInputs :
        /\ measure' = Measure_assign(measure, other)
        /\ mcall' = [op |-> "assign", key |-> 0, value |-> 0]
        /\ UNCHANGED <<areaVars, regVars, runVars>>

NextMeasure == CallMeasureSetValue \/ CallMeasureSetLabel \/ CallMeasureAssign

SpecMeasure == InitMeasure /\ [][NextMeasure]_vars


(***************************************************************************)
(* Claims about Measure, checked under SpecMeasure.                        *)
(***************************************************************************)
RECURSIVE SumOfYears(_, _)
SumOfYears(m, ys) ==
    IF ys = {} THEN 0
    ELSE LET y == CHOOSE x \in ys : TRUE
         IN  Measure_getValue(m, y).val + SumOfYears(m, ys \ {y})

MaxOf(S) == CHOOSE x \in S : \A y \in S : y <= x
MinOf(S) == CHOOSE x \in S : \A y \in S : x <= y

\* C7: getAverage returns the mean of all stored values, and 0 for an empty
\* series.
C7_AverageMeanOrZero ==
    LET ys == MeasureYears(measure)
    IN  IF ys = {} THEN Measure_getAverage(measure) = DInt(0)
        ELSE DEq(Measure_getAverage(measure), DFin(SumOfYears(measure, ys), Cardinality(ys)))

\* C8: getDifference is the value at the greatest stored year minus the value
\* at the smallest stored year, whatever the order of the setValue calls, and
\* getDifference and getDifferenceAsPercentage are 0 with fewer than two years.
C8_DifferenceByYear ==
    LET ys == MeasureYears(measure)
    IN  IF Cardinality(ys) < 2
        THEN /\ Measure_getDifference(measure) = DInt(0)
             /\ Measure_getDifferenceAsPercentage(measure) = DInt(0)
        ELSE Measure_getDifference(measure) =
                DInt(Measure_getValue(measure, MaxOf(ys)).val
                     - Measure_getValue(measure, MinOf(ys)).val)

\* a smaller year was set after a greater one, and the ends differ
C8_Witness ==
    /\ mcall.op = "setValue"
    /\ Cardinality(MeasureYears(measure)) >= 2
    /\ mcall.key = MinOf(MeasureYears(measure))
    /\ Measure_getDifference(measure) # DInt(0)

(***************************************************************************)
(* SpecArea: one Area under setName, setMeasure and getMeasure.            *)
(***************************************************************************)
AreaMeasureInputs ==
    { WithValues(Measure(Str_Pop, Str_Population), <<YV(1, 1)>>),
      WithValues(Measure(Str_POP, Str_Pop), <<YV(1, 2), YV(2, 0)>>),
      WithValues(Measure(Str_dens, Str_Density), <<YV(2, 1)>>) }
MeasureKeys == {Str_Pop, Str_POP, Str_dens}
LangInputs == {Str_ENG, Str_cym, Str_en, Str_e1g}
NameInputs == {Str_Test, Str_Foo}

InitArea ==
    /\ \E c \in {Str_W1, Str_W2} : area = Area(c) /\ aprev = Area(c)
    /\ acall = [op |-> "Area", key |-> <<>>, m |-> Measure(<<>>, <<>>), ok |-> TRUE]
    /\ MeasureIdle /\ RegIdle /\ RunIdle

CallAreaSetName ==
    \E lang \in LangInputs, name \in NameInputs :
        /\ area' = Area_setName(area, lang, name).area
        /\ aprev' = area
        /\ acall' = [op |-> "setName", key |-> lang, m |-> Measure(<<>>, name),
                     ok |-> Area_setName(area, lang, name).ok]
        /\ UNCHANGED <<measureVars, regVars, runVars>>

CallAreaSetMeasure ==
    \E key \in MeasureKeys, m \in AreaMeasureInputs :
        /\ area' = Area_setMeasure(area, key, m)
        /\ aprev' = area
        /\ acall' = [op |-> "setMeasure", key |-> key, m |-> m, ok |-> TRUE]
        /\ UNCHANGED <<measureVars, regVars, runVars>>

CallAreaGetMeasure ==
    \E key \in MeasureKeys :
        /\ acall' = [op |-> "getMeasure", key |-> key, m |-> Area_getMeasure(area, key).val,
                     ok |-> Area_getMeasure(area, key).ok]
        /\ aprev' = area
        /\ UNCHANGED <<area, measureVars, regVars, runVars>>

NextArea == CallAreaSetName \/ CallAreaSetMeasure \/ CallAreaGetMeasure

SpecArea == InitArea /\ [][NextArea]_vars

\* C9: after setMeasure(k, m), getMeasure(k') succeeds for every k' that
\* differs from k only in letter case and returns the merged Measure: m's
\* codename and label, every year of m with m's value, and every other year
\* stored under that codename before with the value it had.
C9_CodenameCaseInsensitive ==
    acall.op = "setMeasure" =>
        \A k2 \in MeasureKeys \cup {Str_pop} :
            ToLowerStr(k2) = ToLowerStr(acall.key) =>
                LET got == Area_getMeasure(area, k2)
                    old == Area_getMeasure(aprev, acall.key)
                    oldYears == IF old.ok THEN MeasureYears(old.val) ELSE {}
                IN  /\ got.ok
                    /\ got.val.label = acall.m.label
                    /\ got.val.code = acall.m.code
                    /\ MeasureYears(got.val) = MeasureYears(acall.m) \cup oldYears
                    /\ \A y \in MeasureYears(got.val) :
                          Measure_getValue(got.val, y).val =
                              IF MeasureHasYear(acall.m, y)
                              THEN Measure_getValue(acall.m, y).val
                              ELSE Measure_getValue(old.val, y).val

\* a Measure set under a mixed-case key onto one already stored, which held
\* a year the new one lacks and a year both have with another value
C9_Witness ==
    /\ acall.op = "setMeasure"
    /\ acall.key = Str_Pop
    /\ Area_getMeasure(aprev, Str_POP).ok
    /\ \E y \in MeasureYears(Area_getMeasure(aprev, Str_POP).val) :
          ~MeasureHasYear(acall.m, y)
    /\ \E y \in MeasureYears(acall.m) :
          /\ MeasureHasYear(Area_getMeasure(aprev, Str_POP).val, y)
          /\ Measure_getValue(Area_getMeasure(aprev, Str_POP).val, y).val
                # Measure_getValue(acall.m, y).val
    /\ Area_getMeasure(area, Str_pop).ok


(***************************************************************************)
(* SpecSetArea: one Areas object under setArea.                            *)
(***************************************************************************)
MaxSets == 3

AreaInputs ==
    LET named(code, eng, cym) ==
            Area_setName(Area_setName(Area(code), Str_eng, eng).area, Str_cym, cym).area
        pop12 == WithValues(Measure(Str_Pop, Str_Population), <<YV(1, 1), YV(2, 2)>>)
        pop23 == WithValues(Measure(Str_POP, Str_Pop), <<YV(3, 1), YV(2, 0)>>)
        dens1 == WithValues(Measure(Str_dens, Str_Density), <<YV(1, 1)>>)
    IN  { Area_setMeasure(named(Str_W1, Str_Test, Str_Prawf), Str_Pop, pop12),
          Area_setMeasure(Area_setMeasure(Area_setName(Area(Str_W1), Str_ENG, Str_Foo).area,
                                          Str_POP, pop23),
                          Str_dens, dens1),
          Area_setName(Area(Str_W2), Str_cym, Str_Bar).area,
          Area_setMeasure(Area(Str_W2), Str_dens, dens1) }

InitSetArea ==
    /\ areas = EmptyMap /\ prev = EmptyMap /\ call = NoCall /\ thrown = NoErr
    /\ repeat = FALSE /\ rowlog = <<>> /\ nops = 0 /\ filters = NoFilters
    /\ MeasureIdle /\ AreaIdle /\ RunIdle

CallSetArea ==
    \E auth_code \in {Str_W1, Str_W2}, a \in AreaInputs :
        /\ nops < MaxSets
        /\ areas' = Areas_setArea(areas, auth_code, a)
        /\ prev' = areas
        /\ call' = [NoCall EXCEPT !.op = "setArea", !.key = auth_code, !.a = a]
        /\ nops' = nops + 1
        /\ UNCHANGED <<thrown, repeat, rowlog, filters, measureVars, areaVars, runVars>>

NextSetArea == CallSetArea

SpecSetArea == InitSetArea /\ [][NextSetArea]_vars

\* the series of a stored Measure as a set of (year, value) pairs
SeriesOf(m) == {<<m.values[i].year, m.values[i].value>> : i \in 1..Len(m.values)}

\* S with the pairs of T added, T's value winning on every year both hold
SeriesUnion(S, T) == T \cup {p \in S : \A q \in T : q[1] # p[1]}

\* C2: the first setArea(c, A) stores A; a following setArea(c, B) leaves under
\* c the names of A and B with B's name on every shared language, every
\* Measure held by only one of them unchanged, and for every codename held by
\* both the union of the two series with B's value on every shared year.
C2_UnionMerge ==
    call.op = "setArea" =>
        LET c == call.key
            B == call.a
            R == areas[c]
        IN  /\ c \in DOMAIN areas
            /\ IF c \notin DOMAIN prev
               THEN R.names = B.names /\ R.measures = B.measures
               ELSE LET A == prev[c]
                    IN  /\ DOMAIN R.names = DOMAIN A.names \cup DOMAIN B.names
                        /\ \A l \in DOMAIN R.names :
                              R.names[l] = IF l \in DOMAIN B.names THEN B.names[l]
                                           ELSE A.names[l]
                        /\ DOMAIN R.measures = DOMAIN A.measures \cup DOMAIN B.measures
                        /\ \A k \in DOMAIN R.measures :
                              IF k \notin DOMAIN B.measures THEN R.measures[k] = A.measures[k]
                              ELSE IF k \notin DOMAIN A.measures
                              THEN R.measures[k] = B.measures[k]
                              ELSE SeriesOf(R.measures[k]) =
                                     SeriesUnion(SeriesOf(A.measures[k]), SeriesOf(B.measures[k]))

\* B was set onto a stored A with which it shares a language under another
\* name and a codename with a shared year under another value, and each of
\* A and B holds a Measure the other lacks
C2_Witness ==
    /\ call.op = "setArea"
    /\ call.key \in DOMAIN prev
    /\ LET A == prev[call.key]
           B == call.a
       IN  /\ \E l \in DOMAIN A.names \cap DOMAIN B.names : A.names[l] # B.names[l]
           /\ DOMAIN A.names \ DOMAIN B.names # {}
           /\ DOMAIN B.measures \ DOMAIN A.measures # {}
           /\ \E k \in DOMAIN A.measures \cap DOMAIN B.measures :
                 \E p \in SeriesOf(A.measures[k]), q \in SeriesOf(B.measures[k]) :
                     p[1] = q[1] /\ p[2] # q[2]
           /\ \E k \in DOMAIN A.measures \cap DOMAIN B.measures :
                 \E p \in SeriesOf(A.measures[k]) :
                     \A q \in SeriesOf(B.measures[k]) : q[1] # p[1]


(***************************************************************************)
(* Spec: one Areas object under populate, with the filters of the run      *)
(* fixed as BethYw::run fixes them.  A dataset is a stream with the parser *)
(* and the column mapping of its InputFileSource.                          *)
(***************************************************************************)
MaxOps == 2
MaxRows == 2

Str_code == <<"c", "o", "d", "e">>
Str_year == <<"y", "e", "a", "r">>
Str_value == <<"v", "a", "l", "u", "e">>
Str_mcode == <<"m", "c", "o", "d", "e">>
Str_mname == <<"m", "n", "a", "m", "e">>
NumStr(n) == <<DigitChars[n + 1]>>

SeqsUpTo(S, n) == UNION {[1..k -> S] : k \in 0..n}
CsvStream(header, rows) == [NoStream EXCEPT !.header = header, !.rows = rows]
JsonStream(value) == [NoStream EXCEPT !.value = value]
BadJsonStream == [NoStream EXCEPT !.bad = TRUE]
Dataset(is, type, cols) == [is |-> is, type |-> type, cols |-> cols]

CodeCols ==
    ("AUTH_CODE" :> Str_code) @@ ("AUTH_NAME_ENG" :> Str_eng) @@ ("AUTH_NAME_CYM" :> Str_cym)
CodeHeader == <<Str_code, Str_eng, Str_cym>>
CodeRowInputs ==
    {<<Str_W1, Str_Test, Str_Prawf>>, <<Str_W1, Str_Foo, Str_Bar>>, <<Str_W2, Str_Foo>>}
CodeDatasets ==
    {Dataset(CsvStream(CodeHeader, rows), "AuthorityCodeCSV", CodeCols) :
        rows \in SeqsUpTo(CodeRowInputs, MaxRows)}
    \cup {Dataset(CsvStream(<<Str_code, Str_eng>>, <<<<Str_W1, Str_Test, Str_Prawf>>>>),
                  "AuthorityCodeCSV", CodeCols),
          Dataset(CsvStream(CodeHeader, <<<<Str_W1, Str_Test, Str_Prawf>>>>),
                  "AuthorityCodeCSV", ("AUTH_CODE" :> Str_code) @@ ("AUTH_NAME_ENG" :> Str_eng)),
          Dataset(CsvStream(CodeHeader, <<<<Str_W1, Str_Test, Str_Prawf>>>>), "None", CodeCols),
          Dataset(CsvStream(<<Str_code, Str_eng, Str_cym, Str_zz>>,
                            <<<<Str_W1, Str_Test, Str_Prawf>>>>),
                  "AuthorityCodeCSV", CodeCols)}

ByYearCols ==
    ("AUTH_CODE" :> Str_code) @@ ("SINGLE_MEASURE_CODE" :> Str_Pop)
    @@ ("SINGLE_MEASURE_NAME" :> Str_Population)
ByYearHeader == <<Str_code, NumStr(1), NumStr(2)>>
ByYearRowInputs ==
    {<<Str_W1, NumStr(1), NumStr(2)>>, <<Str_W1, NumStr(2)>>,
     <<Str_W2, NumStr(0), NumStr(1), NumStr(2)>>}
ByYearDatasets ==
    {Dataset(CsvStream(ByYearHeader, rows), "AuthorityByYearCSV", ByYearCols) :
        rows \in SeqsUpTo(ByYearRowInputs, MaxRows)}
    \cup {Dataset(CsvStream(<<Str_year, NumStr(1)>>, <<<<Str_W1, NumStr(1)>>>>),
                  "AuthorityByYearCSV", ByYearCols),
          Dataset(CsvStream(<<Str_code, NumStr(1), Str_zz>>, <<<<Str_W1, NumStr(1)>>>>),
                  "AuthorityByYearCSV", ByYearCols),
          Dataset(CsvStream(ByYearHeader,
                            <<<<Str_W1, NumStr(1), NumStr(2)>>, <<Str_W2, NumStr(1), Str_zz>>>>),
                  "AuthorityByYearCSV", ByYearCols),
          Dataset(CsvStream(ByYearHeader, <<<<Str_W1, NumStr(1), NumStr(2)>>>>),
                  "AuthorityByYearCSV", ("AUTH_CODE" :> Str_code))}

JsonCols ==
    ("AUTH_CODE" :> Str_code) @@ ("AUTH_NAME_ENG" :> Str_eng) @@ ("YEAR" :> Str_year)
    @@ ("VALUE" :> Str_value) @@ ("MEASURE_CODE" :> Str_mcode) @@ ("MEASURE_NAME" :> Str_mname)
JsonSingleCols ==
    ("AUTH_CODE" :> Str_code) @@ ("AUTH_NAME_ENG" :> Str_eng) @@ ("YEAR" :> Str_year)
    @@ ("VALUE" :> Str_value) @@ ("SINGLE_MEASURE_CODE" :> Str_dens)
    @@ ("SINGLE_MEASURE_NAME" :> Str_Density)
JsonRecord(code, eng, year, value, mcode, mname) ==
    (Str_code :> JStr(code)) @@ (Str_eng :> JStr(eng)) @@ (Str_year :> year)
    @@ (Str_value :> value) @@ (Str_mcode :> JStr(mcode)) @@ (Str_mname :> JStr(mname))
JsonRecordInputs ==
    {JsonRecord(Str_W1, Str_Test, JStr(NumStr(1)), JNum(1), Str_Pop, Str_Population),
     JsonRecord(Str_W1, Str_Test, JStr(NumStr(2)), JStr(NumStr(2)), Str_POP, Str_Population),
     JsonRecord(Str_W2, Str_Foo, JStr(NumStr(3)), JNum(0), Str_dens, Str_Density)}
JsonDatasets ==
    {Dataset(JsonStream(recs), "WelshStatsJSON", JsonCols) :
        recs \in SeqsUpTo(JsonRecordInputs, MaxRows)}
    \cup {Dataset(BadJsonStream, "WelshStatsJSON", JsonCols),
          Dataset(JsonStream(
                    <<JsonRecord(Str_W1, Str_Test, JStr(NumStr(1)), JNum(1), Str_Pop, Str_Population),
                      JsonRecord(Str_W2, Str_Foo, JNum(2), JNum(1), Str_Pop, Str_Population)>>),
                  "WelshStatsJSON", JsonCols),
          Dataset(JsonStream(
                    <<JsonRecord(Str_W2, Str_Foo, JStr(NumStr(2)), JNum(2), Str_Pop, Str_Population)>>),
                  "WelshStatsJSON", JsonSingleCols)}

Datasets ==
    {ds \in CodeDatasets : Len(ds.is.rows) <= 1} \cup ByYearDatasets \cup JsonDatasets

\* what the unchecked read can do for this dataset: nothing to choose unless
\* some data line has fewer values than the header has years
HasShortRow(ds) ==
    /\ ds.type = "AuthorityByYearCSV"
    /\ \E i \in 1..Len(ds.is.rows) :
          Len(LoopFields(ds.is.rows[i])) < Len(LoopFields(ds.is.header))
UBOutcomes == {[kind |-> "garbage", val |-> v] : v \in {0, MaxValue}} \cup {[kind |-> "crash", val |-> 0]}
UBFor(ds) == IF HasShortRow(ds) THEN UBOutcomes ELSE {NoUB}

FilterConfigs ==
    {[overload |-> 3, af |-> NullFilter, mf |-> NullFilter, yf |-> NullYears],
     [overload |-> 6, af |-> NullFilter, mf |-> NullFilter, yf |-> NullYears],
     [overload |-> 6, af |-> Filter({}), mf |-> Filter({}), yf |-> YearsFilter(0, 0)],
     [overload |-> 6, af |-> Filter({Str_test}), mf |-> NullFilter, yf |-> NullYears],
     [overload |-> 6, af |-> Filter({Str_w1, Str_zz}), mf |-> Filter({Str_POP}), yf |-> NullYears],
     [overload |-> 6, af |-> Filter({Str_zz}), mf |-> Filter({Str_dens}), yf |-> YearsFilter(2, 2)]}
    \cup {[overload |-> 6, af |-> NullFilter, mf |-> NullFilter, yf |-> YearsFilter(s, e)] :
            s \in 0..MaxYear, e \in 0..MaxYear}

\* areas.csv as loadAreas reads it
AreasFile ==
    Dataset(CsvStream(CodeHeader, <<<<Str_W1, Str_Test, Str_Prawf>>, <<Str_W2, Str_Foo, Str_Bar>>>>),
            "AuthorityCodeCSV", CodeCols)

Init ==
    /\ filters \in FilterConfigs
    /\ areas \in {EmptyMap,
                  Areas_populate(EmptyMap, AreasFile.is, AreasFile.type, AreasFile.cols,
                                 filters.af, NullFilter, NullYears, NoUB).areas}
    /\ prev = EmptyMap /\ call = NoCall /\ thrown = NoErr
    /\ repeat = FALSE /\ rowlog = <<>> /\ nops = 0
    /\ MeasureIdle /\ AreaIdle /\ RunIdle

\* a call of populate made on a live process
Ingest(op, ds, ub, out) ==
    /\ nops < MaxOps
    /\ thrown.kind # "crash"
    /\ areas' = out.areas
    /\ thrown' = out.err
    /\ rowlog' = <<areas>> \o out.log
    /\ prev' = areas
    /\ repeat' = (call.op = op /\ call.is = ds.is /\ call.type = ds.type /\ call.cols = ds.cols)
    /\ call' = [NoCall EXCEPT !.op = op, !.is = ds.is, !.type = ds.type, !.cols = ds.cols,
                             !.ub = ub]
    /\ nops' = nops + 1
    /\ UNCHANGED <<filters, measureVars, areaVars, runVars>>

CallPopulate ==
    \E ds \in Datasets : \E ub \in UBFor(ds) :
        /\ filters.overload = 6
        /\ Ingest("populate", ds, ub,
                  Areas_populate(areas, ds.is, ds.type, ds.cols,
                                 filters.af, filters.mf, filters.yf, ub))

CallPopulateNoFilters ==
    \E ds \in Datasets : \E ub \in UBFor(ds) :
        /\ filters.overload = 3
        /\ Ingest("populate", ds, ub,
                  Areas_populateNoFilters(areas, ds.is, ds.type, ds.cols, ub))

Next == CallPopulate \/ CallPopulateNoFilters

Spec == Init /\ [][Next]_vars


(***************************************************************************)
(* SpecCode: one Areas object under populate of Authority-Code CSV files   *)
(* alone, under one area filter.                                           *)
(***************************************************************************)
CodeFilterConfigs ==
    {[overload |-> 6, af |-> f, mf |-> NullFilter, yf |-> NullYears] :
        f \in {NullFilter, Filter({}), Filter({Str_test}), Filter({Str_w1, Str_zz})}}

InitCode ==
    /\ filters \in CodeFilterConfigs
    /\ areas \in {EmptyMap,
                  Areas_populate(EmptyMap, AreasFile.is, AreasFile.type, AreasFile.cols,
                                 filters.af, NullFilter, NullYears, NoUB).areas}
    /\ prev = EmptyMap /\ call = NoCall /\ thrown = NoErr
    /\ repeat = FALSE /\ rowlog = <<>> /\ nops = 0
    /\ MeasureIdle /\ AreaIdle /\ RunIdle

CallPopulateCode ==
    \E ds \in CodeDatasets :
        Ingest("populate", ds, NoUB,
               Areas_populate(areas, ds.is, ds.type, ds.cols,
                              filters.af, filters.mf, filters.yf, NoUB))

NextCode == CallPopulateCode

SpecCode == InitCode /\ [][NextCode]_vars

(***************************************************************************)
(* Claims about populate, checked under SpecCode and Spec.                 *)
(***************************************************************************)
\* equality of two registries: the same codes, every Area equal by operator==
RegistryEq(r1, r2) ==
    /\ DOMAIN r1 = DOMAIN r2
    /\ \A c \in DOMAIN r1 : Area_eq(r1[c], r2[c])

\* t occurs in s, letter case ignored
ContainsIgnoreCase(s, t) ==
    \E k \in 0..(Len(s) - Len(t)) :
        ToLowerStr(SubSeq(s, k + 1, k + Len(t))) = ToLowerStr(t)

FilterGiven(f) == ~f.null /\ f.set # {}

\* C1: ingesting an Authority-Code CSV a second time in succession, under
\* whatever area filter, leaves the registry equal to the registry after the
\* first ingestion.
C1_IdempotentCodeIngest ==
    (call.op = "populate" /\ call.type = "AuthorityCodeCSV" /\ repeat) =>
        RegistryEq(areas, prev)

\* the file ingested twice holds two rows for one code, one passing the area
\* filter and one failing it
C1_Witness ==
    /\ call.op = "populate" /\ call.type = "AuthorityCodeCSV" /\ repeat
    /\ thrown.kind = "none"
    /\ FilterGiven(filters.af)
    /\ areas # EmptyMap
    /\ \E i, j \in 1..Len(call.is.rows) :
          /\ i < j
          /\ call.is.rows[i][1] = call.is.rows[j][1]
          /\ ~checkIfAreaMatchesFilter(AuthorityCodeCandidate(call.is.rows[i]), filters.af)
          /\ checkIfAreaMatchesFilter(AuthorityCodeCandidate(call.is.rows[j]), filters.af)

PassThrough(f) ==
    /\ f.af.null \/ f.af.set = {}
    /\ f.mf.null \/ f.mf.set = {}
    /\ f.yf.null \/ (f.yf.start = 0 /\ f.yf.end = 0)

\* C3: with an absent or empty area filter, an absent or empty measure filter
\* and an absent or (0,0) year filter, populate with filters leaves the
\* registry that the filterless populate leaves for the same stream, type
\* and column mapping, for each of the three parsers.
C3_FilterPassThrough ==
    (call.op = "populate" /\ filters.overload = 6 /\ PassThrough(filters)) =>
        RegistryEq(areas,
                   Areas_populateNoFilters(prev, call.is, call.type, call.cols, call.ub).areas)

\* an Authority-by-Year file that stored values under empty filter sets and
\* the (0,0) year filter
C3_Witness ==
    /\ call.op = "populate" /\ filters.overload = 6
    /\ ~filters.af.null /\ ~filters.mf.null /\ ~filters.yf.null
    /\ PassThrough(filters)
    /\ call.type = "AuthorityByYearCSV"
    /\ thrown.kind = "none"
    /\ \E c \in DOMAIN areas : areas[c].measures # EmptyMap /\ prev[c].measures = EmptyMap

\* the year filter as the specification reads it
SpecRetains(year, yf) ==
    \/ yf.null
    \/ yf.start = 0 /\ yf.end = 0
    \/ yf.start <= year /\ year <= yf.end

StoredByLastIngest(c, k, y) ==
    ~(/\ c \in DOMAIN prev
      /\ k \in DOMAIN prev[c].measures
      /\ MeasureHasYear(prev[c].measures[k], y))

\* files whose lines carry a value for every year column, so that no read is
\* undefined
C4_NothingOutsideStored ==
    (/\ call.op = "populate" /\ call.type \in {"AuthorityByYearCSV", "WelshStatsJSON"}
     /\ ~HasShortRow(call)) =>
        \A c \in DOMAIN areas : \A k \in DOMAIN areas[c].measures :
            \A y \in MeasureYears(areas[c].measures[k]) :
                StoredByLastIngest(c, k, y) => SpecRetains(y, filters.yf)

C4_RetainedStored ==
    (/\ call.op = "populate" /\ call.type = "AuthorityByYearCSV" /\ thrown.kind = "none"
     /\ filters.mf.null /\ filters.af.null
     /\ Len(LoopFields(call.is.header)) > 0) =>
        \A i \in 1..Len(call.is.rows) :
            LET fields == call.is.rows[i]
                heads == LoopFields(call.is.header)
                n == IF Len(LoopFields(fields)) < Len(heads) THEN Len(LoopFields(fields))
                     ELSE Len(heads)
                k == ToLowerStr(call.cols["SINGLE_MEASURE_CODE"])
            IN  \A j \in 1..n :
                    (fields[1] \in DOMAIN prev /\ SpecRetains(stoi(heads[j]).val, filters.yf)) =>
                        /\ k \in DOMAIN areas[fields[1]].measures
                        /\ MeasureHasYear(areas[fields[1]].measures[k], stoi(heads[j]).val)

\* C4: in the Authority-by-Year CSV parser and the Tabular-JSON parser a year
\* is retained iff the year filter is absent or (0,0) or start <= year <= end:
\* an ingestion stores no value for a year the filter does not retain, and
\* stores the value of every retained year column of a row of a known Area.
C4_YearFilter == C4_NothingOutsideStored /\ C4_RetainedStored

\* every write one Authority-by-Year data line implies, applied to before
ByYearRowApplied(before, after, fields, header, cols, yf) ==
    LET code == fields[1]
        vals == LoopFields(fields)
        heads == LoopFields(header)
        n == IF Len(vals) < Len(heads) THEN Len(vals) ELSE Len(heads)
        k == ToLowerStr(cols["SINGLE_MEASURE_CODE"])
        writes == {<<stoi(heads[j]).val, stod(vals[j]).val>> :
                      j \in {j \in 1..n : YearInFilter(stoi(heads[j]).val, yf)}}
    IN  /\ code \in DOMAIN before
        /\ DOMAIN after = DOMAIN before
        /\ \A c \in DOMAIN before \ {code} : after[c] = before[c]
        /\ after[code].area_code = before[code].area_code
        /\ after[code].names = before[code].names
        /\ DOMAIN after[code].measures = DOMAIN before[code].measures \cup {k}
        /\ \A m \in DOMAIN before[code].measures \ {k} :
              after[code].measures[m] = before[code].measures[m]
        /\ SeriesOf(after[code].measures[k]) =
              SeriesUnion(IF k \in DOMAIN before[code].measures
                          THEN SeriesOf(before[code].measures[k]) ELSE {},
                          writes)

\* the Area and the value one Tabular-JSON record implies, applied to before
JsonRecordApplied(before, after, data, cols) ==
    LET x == WelshStatsExtract(data, cols)
        f == x.f
    IN  /\ x.err.kind = "none"
        /\ DOMAIN after = DOMAIN before \cup {f.code}
        /\ \A c \in DOMAIN before \ {f.code} : after[c] = before[c]
        /\ f.code \in DOMAIN before =>
              /\ after[f.code].names = before[f.code].names
              /\ \A m \in DOMAIN before[f.code].measures \ {f.mcode} :
                    after[f.code].measures[m] = before[f.code].measures[m]
        /\ f.code \notin DOMAIN before =>
              after[f.code].names = (Str_eng :> f.eng)
        /\ f.mcode \in DOMAIN after[f.code].measures
        /\ SeriesOf(after[f.code].measures[f.mcode]) =
              SeriesUnion(IF f.code \in DOMAIN before /\ f.mcode \in DOMAIN before[f.code].measures
                          THEN SeriesOf(before[f.code].measures[f.mcode]) ELSE {},
                          {<<f.year, f.value>>})

\* C6: after each data line of an Authority-by-Year CSV and each record of a
\* Tabular-JSON file, whether or not its processing ended in an error, the
\* registry holds all of the writes the line or record implies or none of
\* them, for lines of any length.
C6_RowRecordAtomic ==
    (call.op = "populate" /\ call.type \in {"AuthorityByYearCSV", "WelshStatsJSON"}) =>
        \A i \in 1..(Len(rowlog) - 1) :
            \/ rowlog[i + 1] = rowlog[i]
            \/ /\ call.type = "AuthorityByYearCSV"
               /\ ByYearRowApplied(rowlog[i], rowlog[i + 1], call.is.rows[i], call.is.header,
                                   call.cols, filters.yf)
            \/ /\ call.type = "WelshStatsJSON"
               /\ JsonRecordApplied(rowlog[i], rowlog[i + 1], call.is.value[i], call.cols)

\* a data row of an Authority-Code CSV passes the area filter when some token
\* occurs in its code or in one of its two names
CodeRowMatches(fields, F) ==
    \E t \in F : \E k \in 1..3 : ContainsIgnoreCase(fields[k], t)

MaxDatasets == 2

RunFile(ds, exists) == [ds |-> ds, exists |-> exists]
FailedToOpen == Err("runtime_error", "InputFile::open: Failed to open file")

AreasFileInputs ==
    {RunFile(AreasFile, TRUE), RunFile(AreasFile, FALSE),
     RunFile(Dataset(CsvStream(<<Str_code, Str_eng>>, <<<<Str_W1, Str_Test, Str_Prawf>>>>),
                     "AuthorityCodeCSV", CodeCols), TRUE)}

RunDatasetInputs ==
    {RunFile(Dataset(CsvStream(ByYearHeader, <<<<Str_W1, NumStr(1), NumStr(2)>>>>),
                     "AuthorityByYearCSV", ByYearCols), TRUE),
     RunFile(Dataset(CsvStream(ByYearHeader, <<<<Str_W1, NumStr(1), NumStr(2)>>>>),
                     "AuthorityByYearCSV", ByYearCols), FALSE),
     RunFile(Dataset(CsvStream(<<Str_year, NumStr(1)>>, <<<<Str_W1, NumStr(1)>>>>),
                     "AuthorityByYearCSV", ByYearCols), TRUE),
     RunFile(Dataset(CsvStream(ByYearHeader, <<<<Str_W1, NumStr(1), Str_zz>>>>),
                     "AuthorityByYearCSV", ByYearCols), TRUE),
     RunFile(Dataset(JsonStream(
                       <<JsonRecord(Str_W2, Str_Foo, JStr(NumStr(2)), JNum(1), Str_dens, Str_Density)>>),
                     "WelshStatsJSON", JsonCols), TRUE),
     RunFile(Dataset(BadJsonStream, "WelshStatsJSON", JsonCols), TRUE)}

\* the filters of a run are never null: run passes the addresses of the parsed
\* arguments
RunFilterConfigs ==
    {[overload |-> 6, af |-> Filter({}), mf |-> Filter({}), yf |-> YearsFilter(0, 0)],
     [overload |-> 6, af |-> Filter({Str_test}), mf |-> Filter({Str_POP}),
      yf |-> YearsFilter(2, 2)]}

\* InputFile::open followed by Areas::populate
OpenAndPopulate(reg, file, areasFilter, measuresFilter, yearsFilter) ==
    IF ~file.exists THEN Outcome(reg, FailedToOpen, <<>>)
    ELSE Areas_populate(reg, file.ds.is, file.ds.type, file.ds.cols,
                        areasFilter, measuresFilter, yearsFilter, NoUB)

\* the handlers of run and of loadDatasets catch these two by reference
Caught(e) == e.kind \in {"out_of_range", "runtime_error"}

\* the data directory and the datasets selected on the command line
RunFilesInputs ==
    {[areas |-> af, datasets |-> ds] :
        af \in AreasFileInputs, ds \in SeqsUpTo(RunDatasetInputs, MaxDatasets)}

InitRun ==
    /\ filters \in RunFilterConfigs
    /\ runFiles \in RunFilesInputs
    /\ runPc = "loadAreas" /\ runIdx = 0 /\ attempted = {} /\ reported = <<>>
    /\ output = NoOutput /\ args = NoArgs
    /\ areas = EmptyMap /\ prev = EmptyMap /\ call = NoCall /\ thrown = NoErr
    /\ repeat = FALSE /\ rowlog = <<>> /\ nops = 0
    /\ MeasureIdle /\ AreaIdle

\* what run does with the outcome of BethYw::loadAreas inside its try block:
\* any exception leaves the block, so loadDatasets is not called;
\* std::invalid_argument is caught by the outer handler, past the output
AfterLoadAreas(out) ==
    /\ areas' = out.areas
    /\ thrown' = out.err
    /\ attempted' = attempted \cup {0}
    /\ reported' = IF Caught(out.err) THEN Append(reported, [file |-> 0, err |-> out.err])
                   ELSE reported
    /\ runPc' = IF out.err.kind = "none" THEN "loadDatasets"
                ELSE IF Caught(out.err) THEN "output"
                ELSE IF out.err.kind = "invalid_argument" THEN "done"
                ELSE "terminated"
    /\ runIdx' = 1

RunLoadAreas ==
    /\ runPc = "loadAreas"
    /\ AfterLoadAreas(OpenAndPopulate(areas, runFiles.areas, filters.af, NullFilter, NullYears))
    /\ UNCHANGED <<prev, call, repeat, rowlog, nops, filters, runFiles, output, args,
                   measureVars, areaVars>>

\* what one iteration of the loop of BethYw::loadDatasets does with the
\* outcome of its file: the function is noexcept, so an exception its two
\* handlers do not catch calls std::terminate
AfterLoadDataset(out) ==
    /\ areas' = out.areas
    /\ thrown' = out.err
    /\ attempted' = attempted \cup {runIdx}
    /\ reported' = IF Caught(out.err)
                   THEN Append(reported, [file |-> runIdx, err |-> out.err])
                   ELSE reported
    /\ runPc' = IF out.err.kind = "none" \/ Caught(out.err) THEN "loadDatasets"
                ELSE "terminated"
    /\ runIdx' = runIdx + 1

RunLoadDataset ==
    /\ runPc = "loadDatasets"
    /\ runIdx <= Len(runFiles.datasets)
    /\ AfterLoadDataset(OpenAndPopulate(areas, runFiles.datasets[runIdx],
                                        filters.af, filters.mf, filters.yf))
    /\ UNCHANGED <<prev, call, repeat, rowlog, nops, filters, runFiles, output, args,
                   measureVars, areaVars>>

RunLoadDatasetsDone ==
    /\ runPc = "loadDatasets"
    /\ runIdx > Len(runFiles.datasets)
    /\ runPc' = "output"
    /\ UNCHANGED <<areas, thrown, attempted, reported, runIdx, prev, call, repeat, rowlog,
                   nops, filters, runFiles, output, args, measureVars, areaVars>>

\* std::cout << data.toJSON()
RunOutput ==
    /\ runPc = "output"
    /\ runPc' = "done"
    /\ output' = Areas_toJSON(areas)
    /\ UNCHANGED <<areas, thrown, attempted, reported, runIdx, prev, call, repeat, rowlog,
                   nops, filters, runFiles, args, measureVars, areaVars>>

NextRun == RunLoadAreas \/ RunLoadDataset \/ RunLoadDatasetsDone \/ RunOutput

SpecRun == InitRun /\ [][NextRun]_vars

\* C5: in one run every file, the areas file and then each dataset in order,
\* is passed to its import whatever happened to the files before it, and an
\* error a file raises is reported: the error of the last file imported is
\* among the reported ones, and when the run is over no file was skipped.
C5_FailureIsolation ==
    /\ thrown.kind # "none" =>
          \E j \in 1..Len(reported) : reported[j].err = thrown
    /\ runPc \in {"done", "terminated"} =>
          attempted = 0..Len(runFiles.datasets)


(***************************************************************************)
(* SpecMatch: one Area under setName, tested against one area filter by    *)
(* checkIfAreaMatchesFilter.  A filter token reaches the predicate as the  *)
(* user typed it, so it may hold a regular-expression metacharacter.       *)
(***************************************************************************)
Str_wdot == <<"w", ".">>

MatchFilterInputs ==
    {NullFilter, Filter({}), Filter({Str_test}), Filter({Str_w1, Str_zz}), Filter({Str_zz}),
     Filter({Str_wdot})}

InitMatch ==
    /\ \E c \in {Str_W1, Str_W2} : area = Area(c) /\ aprev = Area(c)
    /\ acall = [op |-> "Area", key |-> <<>>, m |-> Measure(<<>>, <<>>), ok |-> TRUE]
    /\ \E f \in MatchFilterInputs : filters = [NoFilters EXCEPT !.af = f]
    /\ areas = EmptyMap /\ prev = EmptyMap /\ call = NoCall /\ thrown = NoErr
    /\ repeat = FALSE /\ rowlog = <<>> /\ nops = 0
    /\ MeasureIdle /\ RunIdle

CallCheckIfAreaMatchesFilter ==
    /\ acall' = [op |-> "checkIfAreaMatchesFilter", key |-> <<>>, m |-> Measure(<<>>, <<>>),
                 ok |-> checkIfAreaMatchesFilter(area, filters.af)]
    /\ aprev' = area
    /\ UNCHANGED <<area, measureVars, regVars, runVars>>

NextMatch == CallAreaSetName \/ CallCheckIfAreaMatchesFilter

SpecMatch == InitMatch /\ [][NextMatch]_vars

\* some token of F occurs, letter case ignored, in the code of the Area or in
\* one of its stored names
AreaContainsToken(a, F) ==
    \E t \in F :
        \/ ContainsIgnoreCase(a.area_code, t)
        \/ \E l \in DOMAIN a.names : ContainsIgnoreCase(a.names[l], t)

\* C11: an Area matches a non-empty area filter iff at least one token of the
\* filter is a case-insensitive substring of the code of the Area or of one of
\* its stored names, in any language; an empty or null filter matches every
\* Area.
C11_AreaFilterPredicate ==
    acall.op = "checkIfAreaMatchesFilter" =>
        acall.ok = (IF FilterGiven(filters.af) THEN AreaContainsToken(area, filters.af.set)
                    ELSE TRUE)


(***************************************************************************)
(* Claims about the parsers, checked under Spec.                           *)
(***************************************************************************)
\* the i-th data line or record of the last populate ended in an exception
RaisedAt(i) == thrown.kind # "none" /\ i = Len(rowlog) - 1

\* C12: the Authority-by-Year CSV parser never creates an Area: a data row
\* whose authority code is not a key of the registry changes nothing in the
\* registry and raises no error, and the codes of the registry after the
\* ingestion are the codes before it.
C12_ByYearNeverCreates ==
    (call.op = "populate" /\ call.type = "AuthorityByYearCSV") =>
        /\ DOMAIN areas = DOMAIN prev
        /\ \A i \in 1..(Len(rowlog) - 1) :
              GetField(call.is.rows[i], 1, <<>>) \notin DOMAIN rowlog[i] =>
                  /\ rowlog[i + 1] = rowlog[i]
                  /\ ~RaisedAt(i)


(***************************************************************************)
(* SpecJson: one Areas object under populate of Tabular-JSON files, each   *)
(* call with filters of its own, as a caller of the class may make them.   *)
(***************************************************************************)
\* the JSON column mapping with one of its keys taken away
ColsWithout(cols, keys) == [k \in (DOMAIN cols) \ keys |-> cols[k]]

JsonShortCols ==
    {ColsWithout(JsonCols, {k}) : k \in {"AUTH_CODE", "AUTH_NAME_ENG", "YEAR", "VALUE"}}
    \cup {ColsWithout(JsonCols, {"MEASURE_CODE", "MEASURE_NAME"}),
          ColsWithout(JsonCols, {"MEASURE_NAME"}),
          ColsWithout(JsonSingleCols, {"SINGLE_MEASURE_NAME"})}

JsonShortColsDatasets ==
    {Dataset(JsonStream(recs), "WelshStatsJSON", cols) :
        recs \in {<<>>,
                  <<JsonRecord(Str_W1, Str_Test, JStr(NumStr(1)), JNum(1), Str_Pop, Str_Population)>>},
        cols \in JsonShortCols}

JsonFilterInputs ==
    {[overload |-> 6, af |-> NullFilter, mf |-> NullFilter, yf |-> NullYears],
     [overload |-> 6, af |-> Filter({}), mf |-> Filter({}), yf |-> YearsFilter(0, 0)],
     [overload |-> 6, af |-> Filter({Str_zz}), mf |-> NullFilter, yf |-> NullYears],
     [overload |-> 6, af |-> Filter({Str_test}), mf |-> Filter({Str_POP}), yf |-> YearsFilter(1, 2)],
     [overload |-> 6, af |-> NullFilter, mf |-> Filter({Str_dens}), yf |-> YearsFilter(2, MaxYear)]}

InitJson ==
    /\ areas \in {EmptyMap,
                  Areas_populateNoFilters(EmptyMap, AreasFile.is, AreasFile.type, AreasFile.cols,
                                          NoUB).areas}
    /\ filters = NoFilters
    /\ prev = EmptyMap /\ call = NoCall /\ thrown = NoErr
    /\ repeat = FALSE /\ rowlog = <<>> /\ nops = 0
    /\ MeasureIdle /\ AreaIdle /\ RunIdle

\* a call of populate with the filters f
IngestWith(f, ds, out) ==
    /\ nops < MaxOps
    /\ areas' = out.areas
    /\ thrown' = out.err
    /\ rowlog' = <<areas>> \o out.log
    /\ prev' = areas
    /\ filters' = f
    /\ repeat' = (call.op = "populate" /\ call.is = ds.is /\ call.type = ds.type
                  /\ call.cols = ds.cols /\ filters = f)
    /\ call' = [NoCall EXCEPT !.op = "populate", !.is = ds.is, !.type = ds.type,
                             !.cols = ds.cols]
    /\ nops' = nops + 1
    /\ UNCHANGED <<measureVars, areaVars, runVars>>

\* a record that names a known Area by another English name
JsonOtherNameDataset ==
    Dataset(JsonStream(<<JsonRecord(Str_W1, Str_Bar, JStr(NumStr(MaxYear)), JNum(MaxValue),
                                    Str_dens, Str_Density)>>),
            "WelshStatsJSON", JsonCols)

JsonSpecDatasets == JsonDatasets \cup JsonShortColsDatasets \cup {JsonOtherNameDataset}

CallPopulateJson ==
    \E ds \in JsonSpecDatasets : \E f \in JsonFilterInputs :
        IngestWith(f, ds, Areas_populate(areas, ds.is, ds.type, ds.cols, f.af, f.mf, f.yf, NoUB))

NextJson == CallPopulateJson

SpecJson == InitJson /\ [][NextJson]_vars


(***************************************************************************)
(* Claims about the Tabular-JSON parser, checked under SpecJson.           *)
(***************************************************************************)
JsonFieldsOf(i) == WelshStatsExtract(call.is.value[i], call.cols)

\* the i-th record was extracted, passes the year filter and the measure
\* filter, and its authority code was in the registry when it was read
JsonRecordForKnownArea(i) ==
    LET x == JsonFieldsOf(i)
    IN  /\ x.err.kind = "none"
        /\ SpecRetains(x.f.year, filters.yf)
        /\ \/ ~FilterGiven(filters.mf)
           \/ \E t \in filters.mf.set : ToLowerStr(t) = ToLowerStr(x.f.mcode)
        /\ x.f.code \in DOMAIN rowlog[i]

ValueSetAt(reg, code, mcode, year, value) ==
    /\ code \in DOMAIN reg
    /\ mcode \in DOMAIN reg[code].measures
    /\ Measure_getValue(reg[code].measures[mcode], year) = [ok |-> TRUE, val |-> value]

JsonValueSetBy(i) ==
    LET f == JsonFieldsOf(i).f
    IN  ValueSetAt(rowlog[i + 1], f.code, f.mcode, f.year, f.value)

\* C13 as stated: in the Tabular-JSON parser every record that passes the year
\* filter and the measure filter and whose authority code already exists in
\* the registry has its value set at (measure code, year) in that Area, the
\* Measure being created on first use.
C13_JsonValueSetAsStated ==
    (call.op = "populate" /\ call.type = "WelshStatsJSON") =>
        \A i \in 1..(Len(rowlog) - 1) :
            JsonRecordForKnownArea(i) => JsonValueSetBy(i)

\* C13, amended: such a record has its value set when the area filter is
\* absent or empty or the existing Area matches it, and changes nothing in the
\* registry when the existing Area fails the area filter.
C13_JsonValueSet ==
    (call.op = "populate" /\ call.type = "WelshStatsJSON") =>
        \A i \in 1..(Len(rowlog) - 1) :
            JsonRecordForKnownArea(i) =>
                IF checkIfAreaMatchesFilter(rowlog[i][JsonFieldsOf(i).f.code], filters.af)
                THEN JsonValueSetBy(i)
                ELSE rowlog[i + 1] = rowlog[i]

\* a record created a Measure in an existing Area that matches a non-empty
\* area filter
C13_Witness ==
    /\ call.op = "populate" /\ call.type = "WelshStatsJSON"
    /\ FilterGiven(filters.af)
    /\ \E i \in 1..(Len(rowlog) - 1) :
          /\ JsonRecordForKnownArea(i)
          /\ checkIfAreaMatchesFilter(rowlog[i][JsonFieldsOf(i).f.code], filters.af)
          /\ JsonFieldsOf(i).f.mcode \notin DOMAIN rowlog[i][JsonFieldsOf(i).f.code].measures
          /\ JsonValueSetBy(i)

\* C14: in the Tabular-JSON parser a record for an Area that is already in the
\* registry never changes the code or a name of that Area, the English name of
\* the record is not written; only the measures of the Area can change.
C14_JsonKeepsNames ==
    (call.op = "populate" /\ call.type = "WelshStatsJSON") =>
        \A i \in 1..(Len(rowlog) - 1) :
            \A c \in DOMAIN rowlog[i] :
                /\ c \in DOMAIN rowlog[i + 1]
                /\ rowlog[i + 1][c].area_code = rowlog[i][c].area_code
                /\ rowlog[i + 1][c].names = rowlog[i][c].names

\* a record changed the measures of an existing Area whose English name is
\* not the one the record carries
C14_Witness ==
    /\ call.op = "populate" /\ call.type = "WelshStatsJSON"
    /\ \E i \in 1..(Len(rowlog) - 1) :
          LET x == JsonFieldsOf(i)
          IN  /\ x.err.kind = "none"
              /\ x.f.code \in DOMAIN rowlog[i]
              /\ Area_getName(rowlog[i][x.f.code], Str_eng).ok
              /\ Area_getName(rowlog[i][x.f.code], Str_eng).val # x.f.eng
              /\ rowlog[i + 1][x.f.code].measures # rowlog[i][x.f.code].measures

\* the column mapping lacks a key the Tabular-JSON parser requires
JsonKeyMissing(cols) ==
    \/ \E k \in {"AUTH_CODE", "AUTH_NAME_ENG", "YEAR", "VALUE"} : k \notin DOMAIN cols
    \/ /\ ~({"MEASURE_CODE", "MEASURE_NAME"} \subseteq DOMAIN cols)
       /\ ~({"SINGLE_MEASURE_CODE", "SINGLE_MEASURE_NAME"} \subseteq DOMAIN cols)

\* C16: in the Tabular-JSON parser, for every input document, one whose
\* "value" array is empty included, a column mapping that lacks a required
\* key (authority code, English name, year, value, or both the per-record and
\* the single-measure code/name pair) makes the ingestion fail with
\* Not-Enough-Columns and leaves the registry unchanged.
C16_JsonNotEnoughColumns ==
    (/\ call.op = "populate" /\ call.type = "WelshStatsJSON"
     /\ ~call.is.bad
     /\ JsonKeyMissing(call.cols)) =>
        (thrown = ColsNotEnough /\ areas = prev)


(***************************************************************************)
(* Claims about header validation, the dispatcher and the measure          *)
(* pre-check, checked under Spec.                                          *)
(***************************************************************************)
MalformedFile ==
    thrown.kind = "runtime_error"
    /\ thrown.what \in {"Malformed File!", "Malformed file!"}

CodeKeys == {"AUTH_CODE", "AUTH_NAME_ENG", "AUTH_NAME_CYM"}
ByYearKeys == {"AUTH_CODE", "SINGLE_MEASURE_CODE", "SINGLE_MEASURE_NAME"}

\* the k-th header field is missing or is not the mapped name
HeaderFieldDiffers(header, k, name) == k > Len(header) \/ header[k] # name

\* the measure filter is absent or empty, or one of its entries is the fixed
\* measure code of the file, letter case ignored
MeasureCheckPasses(cols, mf) ==
    \/ ~FilterGiven(mf)
    \/ \E t \in mf.set : ToLowerStr(t) = ToLowerStr(cols["SINGLE_MEASURE_CODE"])

Str_paren == <<"(">>

DispatchDatasets ==
    {ds \in CodeDatasets \cup ByYearDatasets \cup JsonDatasets :
        Len(ds.is.rows) + Len(ds.is.value) <= 1 /\ ~HasShortRow(ds)}

DispatchFilterInputs ==
    {[overload |-> 6, af |-> NullFilter, mf |-> NullFilter, yf |-> NullYears],
     [overload |-> 6, af |-> Filter({Str_paren}), mf |-> NullFilter, yf |-> NullYears],
     [overload |-> 6, af |-> Filter({Str_test}), mf |-> Filter({Str_POP}), yf |-> YearsFilter(1, 2)],
     [overload |-> 6, af |-> NullFilter, mf |-> Filter({Str_dens, Str_zz}), yf |-> NullYears]}

CallDispatchFilters ==
    \E ds \in DispatchDatasets : \E f \in DispatchFilterInputs :
        IngestWith(f, ds, Areas_populate(areas, ds.is, ds.type, ds.cols, f.af, f.mf, f.yf, NoUB))

CallDispatchNoFilters ==
    \E ds \in DispatchDatasets :
        IngestWith([NoFilters EXCEPT !.overload = 3], ds,
                   Areas_populateNoFilters(areas, ds.is, ds.type, ds.cols, NoUB))

NextDispatch == CallDispatchFilters \/ CallDispatchNoFilters

SpecDispatch == InitJson /\ [][NextDispatch]_vars

\* what the parser of the type of the last call does, called by itself
ParserOutcome ==
    CASE call.type = "AuthorityCodeCSV" ->
            populateFromAuthorityCodeCSV(prev, call.is, call.cols, filters.af)
      [] call.type = "AuthorityByYearCSV" ->
            populateFromAuthorityByYearCSV(prev, call.is, call.cols, filters.af, filters.mf,
                                           filters.yf, NoUB)
      [] call.type = "WelshStatsJSON" ->
            populateFromWelshStatsJSON(prev, call.is, call.cols, filters.af, filters.mf,
                                       filters.yf)

\* C17: populate called with a source type that is none of the three known
\* types fails with Unexpected-Data-Type and leaves the registry unchanged;
\* for a known type it does what the parser of that type does, and an error
\* the parser raises reaches the caller of populate with the same kind and
\* message.
C17_DispatcherPropagates ==
    call.op = "populate" =>
        IF call.type \notin {"AuthorityCodeCSV", "AuthorityByYearCSV", "WelshStatsJSON"}
        THEN thrown = UnexpectedDataType /\ areas = prev
        ELSE areas = ParserOutcome.areas /\ thrown = ParserOutcome.err

\* C18: when a non-empty measure filter is supplied and no entry of it equals
\* the fixed measure code of an Authority-by-Year file, letter case ignored,
\* the ingestion reads no header and no data line, raises no error, even for
\* a malformed header, and leaves the registry unchanged.
C18_ByYearMeasurePreCheck ==
    (/\ call.op = "populate" /\ call.type = "AuthorityByYearCSV"
     /\ "SINGLE_MEASURE_CODE" \in DOMAIN call.cols
     /\ FilterGiven(filters.mf)
     /\ \A t \in filters.mf.set :
           ToLowerStr(t) # ToLowerStr(call.cols["SINGLE_MEASURE_CODE"])) =>
        (thrown = NoErr /\ areas = prev /\ rowlog = <<prev>>)

\* a file with a malformed header and a data line of a known Area was skipped
\* without an error
C18_Witness ==
    /\ call.op = "populate" /\ call.type = "AuthorityByYearCSV"
    /\ "SINGLE_MEASURE_CODE" \in DOMAIN call.cols
    /\ FilterGiven(filters.mf)
    /\ \A t \in filters.mf.set :
          ToLowerStr(t) # ToLowerStr(call.cols["SINGLE_MEASURE_CODE"])
    /\ HeaderFieldDiffers(call.is.header, 1, call.cols["AUTH_CODE"])
    /\ \E i \in 1..Len(call.is.rows) : call.is.rows[i][1] \in DOMAIN prev
    /\ thrown = NoErr


(***************************************************************************)
(* SpecLifecycle: one Areas object under setArea, populate, and setName,   *)
(* setMeasure and setValue made through the references that getArea and    *)
(* getMeasure return.                                                      *)
(***************************************************************************)
\* areas.getArea(c).setName(lang, name); std::out_of_range or
\* std::invalid_argument leaves the registry as it was
GetArea_setName(reg, c, lang, name) ==
    IF ~Areas_getArea(reg, c).ok THEN reg
    ELSE [reg EXCEPT ![c] = Area_setName(reg[c], lang, name).area]

\* areas.getArea(c).setMeasure(key, m)
GetArea_setMeasure(reg, c, key, m) ==
    IF ~Areas_getArea(reg, c).ok THEN reg
    ELSE [reg EXCEPT ![c] = Area_setMeasure(reg[c], key, m)]

\* areas.getArea(c).getMeasure(key).setValue(year, value)
GetMeasure_setValue(reg, c, key, year, value) ==
    IF ~Areas_getArea(reg, c).ok THEN reg
    ELSE IF ~Area_getMeasure(reg[c], key).ok THEN reg
    ELSE [reg EXCEPT ![c].measures[Area_getMeasure(reg[c], key).key] =
             Measure_setValue(Area_getMeasure(reg[c], key).val, year, value)]

LifecycleDatasets ==
    {AreasFile,
     Dataset(CsvStream(<<Str_code, Str_eng>>, <<<<Str_W1, Str_Test, Str_Prawf>>>>),
             "AuthorityCodeCSV", CodeCols),
     Dataset(CsvStream(ByYearHeader,
                       <<<<Str_W1, NumStr(1), NumStr(2)>>, <<Str_W2, NumStr(1), Str_zz>>>>),
             "AuthorityByYearCSV", ByYearCols),
     Dataset(JsonStream(
               <<JsonRecord(Str_W1, Str_Test, JStr(NumStr(1)), JNum(1), Str_Pop, Str_Population),
                 JsonRecord(Str_W2, Str_Foo, JNum(2), JNum(1), Str_Pop, Str_Population)>>),
             "WelshStatsJSON", JsonCols),
     JsonOtherNameDataset}

LifecycleFilterInputs ==
    {[overload |-> 6, af |-> NullFilter, mf |-> NullFilter, yf |-> NullYears],
     [overload |-> 6, af |-> Filter({Str_test}), mf |-> Filter({Str_POP}),
      yf |-> YearsFilter(2, MaxYear)]}

\* the registry after areas.csv and one Authority-by-Year file
LoadedRegistry ==
    Areas_populateNoFilters(
        Areas_populateNoFilters(EmptyMap, AreasFile.is, AreasFile.type, AreasFile.cols, NoUB).areas,
        CsvStream(ByYearHeader, <<<<Str_W1, NumStr(1), NumStr(2)>>>>),
        "AuthorityByYearCSV", ByYearCols, NoUB).areas

InitLifecycle ==
    /\ areas \in {EmptyMap, LoadedRegistry}
    /\ filters = NoFilters
    /\ prev = EmptyMap /\ call = NoCall /\ thrown = NoErr
    /\ repeat = FALSE /\ rowlog = <<>> /\ nops = 0
    /\ MeasureIdle /\ AreaIdle /\ RunIdle

\* a call made on the registry that leaves it as next
Apply(op, key, next) ==
    /\ nops < MaxOps
    /\ areas' = next
    /\ prev' = areas
    /\ call' = [NoCall EXCEPT !.op = op, !.key = key]
    /\ nops' = nops + 1
    /\ UNCHANGED <<thrown, repeat, rowlog, filters, measureVars, areaVars, runVars>>

LifeSetArea ==
    \E auth_code \in {Str_W1, Str_W2}, a \in AreaInputs :
        Apply("setArea", auth_code, Areas_setArea(areas, auth_code, a))

LifeSetName ==
    \E c \in {Str_W1, Str_W2}, lang \in LangInputs, name \in NameInputs :
        Apply("setName", lang, GetArea_setName(areas, c, lang, name))

LifeSetMeasure ==
    \E c \in {Str_W1, Str_W2}, key \in {Str_Pop, Str_dens}, m \in AreaMeasureInputs :
        Apply("setMeasure", key, GetArea_setMeasure(areas, c, key, m))

LifeSetValue ==
    \E c \in {Str_W1, Str_W2}, key \in {Str_POP, Str_dens},
       year \in {1, MaxYear}, value \in {0, MaxValue} :
        Apply("setValue", key, GetMeasure_setValue(areas, c, key, year, value))

LifePopulate ==
    \E ds \in LifecycleDatasets : \E f \in LifecycleFilterInputs :
        IngestWith(f, ds, Areas_populate(areas, ds.is, ds.type, ds.cols, f.af, f.mf, f.yf, NoUB))

NextLifecycle == LifeSetArea \/ LifeSetName \/ LifeSetMeasure \/ LifeSetValue \/ LifePopulate

SpecLifecycle == InitLifecycle /\ [][NextLifecycle]_vars

\* every Area code of r1, every language of its Areas, every Measure codename
\* of its Areas and every year of its Measures is in r2
RegistryIncluded(r1, r2) ==
    /\ DOMAIN r1 \subseteq DOMAIN r2
    /\ \A c \in DOMAIN r1 :
          /\ DOMAIN r1[c].names \subseteq DOMAIN r2[c].names
          /\ DOMAIN r1[c].measures \subseteq DOMAIN r2[c].measures
          /\ \A k \in DOMAIN r1[c].measures :
                MeasureYears(r1[c].measures[k]) \subseteq MeasureYears(r2[c].measures[k])

\* C19: the registry is purely additive: across any sequence of setArea,
\* setMeasure, setName, setValue and populate calls, failing calls included,
\* no Area code, no language of an Area, no Measure codename of an Area and no
\* year of a Measure that is present in one state is absent in a later state.
C19_RegistryAdditive == [][RegistryIncluded(areas, areas')]_vars

\* a populate call that failed after it had merged part of its file into a
\* registry that held Areas, names, Measures and years
C19_Witness ==
    /\ call.op = "populate"
    /\ thrown.kind # "none"
    /\ areas # prev
    /\ \E c \in DOMAIN prev : \E k \in DOMAIN prev[c].measures :
          /\ MeasureYears(prev[c].measures[k]) # {}
          /\ DOMAIN prev[c].names # {}

\* C20: in every reachable state every language key stored in the names of
\* an Area consists of exactly three lowercase letters a-z, whatever letter
\* case was passed to setName and whatever Areas were merged.
C20_LanguageKeysLowercase ==
    \A c \in DOMAIN areas : \A l \in DOMAIN areas[c].names :
        Len(l) = 3 /\ \A i \in 1..3 : \E j \in DOMAIN LowerChars : l[i] = LowerChars[j]

\* setName was called with an upper-case code on an Area that had been
\* merged from another Area, and the name is stored
C20_Witness ==
    /\ call.op = "setName" /\ call.key = Str_ENG
    /\ areas # prev
    /\ \E c \in DOMAIN areas :
          /\ Str_eng \in DOMAIN areas[c].names
          /\ Str_cym \in DOMAIN areas[c].names

(***************************************************************************)
(* Claims about Area::setName, checked under SpecArea.                     *)
(***************************************************************************)
\* three letters a-z
ThreeLowercaseLetters(s) ==
    Len(s) = 3 /\ \A i \in 1..3 : \E j \in DOMAIN LowerChars : s[i] = LowerChars[j]

\* C21: setName with a language code that, after lowercasing, is not exactly
\* three letters a-z fails with Invalid-Argument and leaves the Area's names,
\* code and measures unchanged; with a valid code it stores the name under
\* the lowercased code and changes no other name (nor the code or measures).
C21_SetNameContract ==
    acall.op = "setName" =>
        LET lower == ToLowerStr(acall.key)
        IN  IF ~ThreeLowercaseLetters(lower)
            THEN ~acall.ok /\ area = aprev
            ELSE /\ acall.ok
                 /\ DOMAIN area.names = DOMAIN aprev.names \cup {lower}
                 /\ area.names[lower] = acall.m.label
                 /\ \A l \in DOMAIN aprev.names \ {lower} : area.names[l] = aprev.names[l]
                 /\ area.area_code = aprev.area_code
                 /\ area.measures = aprev.measures

\* setName failed on an Area that held a name and a Measure
C21_Witness ==
    /\ acall.op = "setName" /\ ~acall.ok
    /\ acall.key \in {Str_en, Str_e1g}
    /\ DOMAIN aprev.names # {}
    /\ DOMAIN aprev.measures # {}

\* setName with an upper-case code replaced the name stored under the
\* lowercased code while another name was stored
C21_WitnessUpsert ==
    /\ acall.op = "setName" /\ acall.ok /\ acall.key = Str_ENG
    /\ Str_eng \in DOMAIN aprev.names /\ Str_cym \in DOMAIN aprev.names
    /\ aprev.names[Str_eng] # area.names[Str_eng]

(***************************************************************************)
(* SpecOutput: one Areas object under setArea, populate and toJSON.        *)
(***************************************************************************)
OutputAreaInputs == AreaInputs \cup {Area(Str_W2)}

OutputSetArea ==
    \E auth_code \in {Str_W1, Str_W2}, a \in OutputAreaInputs :
        Apply("setArea", auth_code, Areas_setArea(areas, auth_code, a))

OutputPopulate ==
    \E ds \in LifecycleDatasets : \E f \in LifecycleFilterInputs :
        IngestWith(f, ds, Areas_populate(areas, ds.is, ds.type, ds.cols, f.af, f.mf, f.yf, NoUB))

\* std::string Areas::toJSON() const
CallToJSON ==
    /\ output' = Areas_toJSON(areas)
    /\ call' = [NoCall EXCEPT !.op = "toJSON"]
    /\ prev' = areas
    /\ UNCHANGED <<areas, thrown, repeat, rowlog, nops, filters, measureVars, areaVars,
                   runPc, runFiles, runIdx, attempted, reported, args>>

NextOutput == OutputSetArea \/ OutputPopulate \/ CallToJSON

SpecOutput == InitLifecycle /\ [][NextOutput]_vars

\* C22: toJSON of a registry with zero Areas is the empty object "{}"; for a
\* non-empty registry each Area code maps to an object that always has a
\* "names" map and has a "measures" key iff the Area has at least one
\* Measure.
C22_Serialization ==
    call.op = "toJSON" =>
        /\ output.t = "object"
        /\ areas = EmptyMap => output.members = EmptyMap
        /\ \A k \in DOMAIN areas :
              LET code == Area_getLocalAuthorityCode(areas[k])
              IN  /\ MapHas(output.members, code)
                  /\ output.members[code].t = "object"
                  /\ MapHas(output.members[code].members, Str_names)
                  /\ output.members[code].members[Str_names].t = "object"
                  /\ MapHas(output.members[code].members, Str_measures)
                        <=> DOMAIN areas[k].measures # {}

\* the same for the registries every Area of which has a name and is stored
\* under its own code
C22_SerializationOfNamedAreas ==
    (\A k \in DOMAIN areas :
        DOMAIN areas[k].names # {} /\ Area_getLocalAuthorityCode(areas[k]) = k)
    => C22_Serialization

(***************************************************************************)
(* SpecArgs: the argument parsing of BethYw::run.  An option of the        *)
(* command line is absent (args.count = 0) or given with its list of       *)
(* comma-separated values.                                                 *)
(***************************************************************************)
Str_all == <<"a", "l", "l">>
Str_ALL == <<"A", "L", "L">>
Str_popden == <<"p", "o", "p", "d", "e", "n">>
Str_biz == <<"b", "i", "z">>
Str_aqi == <<"a", "q", "i">>
Str_trains == <<"t", "r", "a", "i", "n", "s">>

\* the CODE of each entry of InputFiles::DATASETS
AllDatasets == <<Str_popden, Str_biz, Str_aqi, Str_trains>>

Arg(values) == [given |-> TRUE, values |-> values]

\* the loop that sets allFlag: it == "all"
AllFlag(values) == \E i \in 1..Len(values) : values[i] = Str_all

\* the datasets of allDatasets whose CODE is it, in order
RECURSIVE MatchingDatasets(_, _)
MatchingDatasets(it, i) ==
    IF i > Len(AllDatasets) THEN <<>>
    ELSE (IF it = AllDatasets[i] THEN <<AllDatasets[i]>> ELSE <<>>)
         \o MatchingDatasets(it, i + 1)

RECURSIVE ImportEach(_, _, _)
ImportEach(inputDatasets, i, datasetsToImport) ==
    IF i > Len(inputDatasets) THEN [err |-> NoErr, val |-> datasetsToImport]
    ELSE IF MatchingDatasets(inputDatasets[i], 1) = <<>>
    THEN [err |-> Err("invalid_argument", "No dataset matches key"), val |-> datasetsToImport]
    ELSE ImportEach(inputDatasets, i + 1,
                    datasetsToImport \o MatchingDatasets(inputDatasets[i], 1))

\* BethYw::parseDatasetsArg
parseDatasetsArg(arg) ==
    IF ~arg.given THEN [err |-> NoErr, val |-> AllDatasets]
    ELSE IF AllFlag(arg.values) THEN [err |-> NoErr, val |-> AllDatasets]
    ELSE ImportEach(arg.values, 1, <<>>)

\* BethYw::parseAreasArg
parseAreasArg(arg) ==
    IF ~arg.given THEN {}
    ELSE IF AllFlag(arg.values) THEN {}
    ELSE {arg.values[i] : i \in 1..Len(arg.values)}

\* BethYw::parseMeasuresArg
parseMeasuresArg(arg) ==
    IF ~arg.given THEN {}
    ELSE IF AllFlag(arg.values) THEN {}
    ELSE {arg.values[i] : i \in 1..Len(arg.values)}

MaxArgs == 2
ArgInputs(tokens) == {NoArg} \cup {Arg(v) : v \in UNION {[1..k -> tokens] : k \in 1..MaxArgs}}

InitArgs ==
    /\ args \in [datasets : ArgInputs({Str_all, Str_ALL, Str_popden, Str_zz}),
                 areas : ArgInputs({Str_all, Str_ALL, Str_W1}),
                 measures : ArgInputs({Str_all, Str_ALL, Str_pop})]
    /\ runPc = "parseDatasetsArg"
    /\ runFiles = <<>> /\ runIdx = 0 /\ attempted = {} /\ reported = <<>>
    /\ output = NoOutput
    /\ MeasureIdle /\ AreaIdle /\ RegIdle

\* auto datasetsToImport = BethYw::parseDatasetsArg(args); std::invalid_argument
\* leaves the try block of run
RunParseDatasetsArg ==
    /\ runPc = "parseDatasetsArg"
    /\ runFiles' = parseDatasetsArg(args.datasets).val
    /\ thrown' = parseDatasetsArg(args.datasets).err
    /\ runPc' = IF parseDatasetsArg(args.datasets).err.kind = "none" THEN "parseAreasArg"
                ELSE "done"
    /\ UNCHANGED <<areas, prev, call, repeat, rowlog, nops, filters, runIdx, attempted,
                   reported, output, args, measureVars, areaVars>>

RunParseAreasArg ==
    /\ runPc = "parseAreasArg"
    /\ filters' = [filters EXCEPT !.af = Filter(parseAreasArg(args.areas))]
    /\ runPc' = "parseMeasuresArg"
    /\ UNCHANGED <<areas, prev, call, thrown, repeat, rowlog, nops, runFiles, runIdx,
                   attempted, reported, output, args, measureVars, areaVars>>

RunParseMeasuresArg ==
    /\ runPc = "parseMeasuresArg"
    /\ filters' = [filters EXCEPT !.mf = Filter(parseMeasuresArg(args.measures))]
    /\ runPc' = "parseYearsArg"
    /\ UNCHANGED <<areas, prev, call, thrown, repeat, rowlog, nops, runFiles, runIdx,
                   attempted, reported, output, args, measureVars, areaVars>>

NextArgs == RunParseDatasetsArg \/ RunParseAreasArg \/ RunParseMeasuresArg

SpecArgs == InitArgs /\ [][NextArgs]_vars

ContainsAllAnyCase(arg) ==
    arg.given /\ \E i \in 1..Len(arg.values) : ToLowerStr(arg.values[i]) = Str_all

\* C23: the value "all" is recognised in any letter case: parseAreasArg and
\* parseMeasuresArg return an empty filter set when the argument is absent
\* or contains "all" in any case, and parseDatasetsArg returns every known
\* dataset, without an invalid-argument error, when the argument contains
\* "all" in any case.
C23_AllAnyCase ==
    /\ (runPc # "parseDatasetsArg" /\ ContainsAllAnyCase(args.datasets)) =>
          thrown.kind = "none" /\ runFiles = AllDatasets
    /\ (runPc \in {"parseMeasuresArg", "parseYearsArg"}
            /\ (~args.areas.given \/ ContainsAllAnyCase(args.areas))) =>
          filters.af.set = {}
    /\ (runPc = "parseYearsArg"
            /\ (~args.measures.given \/ ContainsAllAnyCase(args.measures))) =>
          filters.mf.set = {}

\* the same for the lowercase value "all" only
C23_AllLowercase ==
    /\ (runPc # "parseDatasetsArg" /\ args.datasets.given /\ AllFlag(args.datasets.values)) =>
          thrown.kind = "none" /\ runFiles = AllDatasets
    /\ (runPc \in {"parseMeasuresArg", "parseYearsArg"}
            /\ (~args.areas.given \/ AllFlag(args.areas.values))) =>
          filters.af.set = {}
    /\ (runPc = "parseYearsArg"
            /\ (~args.measures.given \/ AllFlag(args.measures.values))) =>
          filters.mf.set = {}

(***************************************************************************)
(* Claims about BethYw::loadDatasets, checked under SpecRun.               *)
(***************************************************************************)
\* C24: loadDatasets never propagates an error: whatever error opening or
\* parsing a dataset raises (a malformed header, a missing mapping key, a
\* year or value cell that is not a number, an unparsable JSON document), it
\* is caught and reported as 'Error importing dataset:', and the loop goes on
\* to the next dataset.
C24_LoadDatasetsCatchesAll ==
    (runIdx >= 2 /\ thrown.kind # "none") =>
        /\ runPc \in {"loadDatasets", "output", "done"}
        /\ \E j \in 1..Len(reported) :
              reported[j] = [file |-> runIdx - 1, err |-> thrown]

\* the same for the errors that are std::out_of_range or std::runtime_error
C24_LoadDatasetsCatchesTwo ==
    (runIdx >= 2 /\ thrown.kind \in {"out_of_range", "runtime_error"})
    => C24_LoadDatasetsCatchesAll

(***************************************************************************)
(* Claims about the keys of the containers.                                *)
(***************************************************************************)
\* C25: in every state reachable by setArea calls on an initially empty
\* registry, every Area is stored under a key equal to its own local
\* authority code, including when setArea(k, a) is called with an Area a
\* whose code differs from k.
C25_KeyIsAreaCode ==
    \A k \in DOMAIN areas : Area_getLocalAuthorityCode(Areas_getArea(areas, k).val) = k

\* the same as long as every setArea call so far passed an Area under its
\* own code
C25_KeyIsAreaCodeStep ==
    [][(C25_KeyIsAreaCode /\ call'.op = "setArea"
            /\ Area_getLocalAuthorityCode(call'.a) = call'.key)
        => C25_KeyIsAreaCode']_vars

\* C26: in every state reachable by Area::setMeasure calls, every Measure
\* held by an Area is stored under a key that is lowercase and equal to that
\* Measure's own codename, including when setMeasure(k, m) is called with a
\* Measure m whose codename differs from lowercase(k) while a Measure already
\* exists under k.
C26_KeyIsCodename ==
    \A k \in DOMAIN area.measures :
        k = ToLowerStr(k) /\ Measure_getCodename(area.measures[k]) = k

\* the keys are lowercase whatever Measure is passed
C26_KeysLowercase ==
    \A k \in DOMAIN area.measures : k = ToLowerStr(k)

(***************************************************************************)
(* SpecFiltered: one Areas object, empty at first, under populate calls    *)
(* that all carry the same three filters, the year filter with end > 0.    *)
(***************************************************************************)
FilteredConfigs ==
    {[overload |-> 6, af |-> Filter({Str_test}), mf |-> Filter({Str_POP}),
      yf |-> YearsFilter(2, MaxYear)],
     [overload |-> 6, af |-> Filter({Str_w1, Str_Bar}), mf |-> Filter({Str_dens, Str_zz}),
      yf |-> YearsFilter(1, 1)],
     [overload |-> 6, af |-> Filter({Str_wdot}), mf |-> Filter({}), yf |-> YearsFilter(1, 2)],
     [overload |-> 6, af |-> Filter({}), mf |-> Filter({Str_Pop}), yf |-> YearsFilter(MaxYear, 2)],
     [overload |-> 6, af |-> Filter({Str_test}), mf |-> Filter({Str_dens}),
      yf |-> YearsFilter(1, MaxYear)],
     [overload |-> 6, af |-> NullFilter, mf |-> NullFilter, yf |-> YearsFilter(0, 1)]}

InitFiltered ==
    /\ filters \in FilteredConfigs
    /\ areas = EmptyMap
    /\ prev = EmptyMap /\ call = NoCall /\ thrown = NoErr
    /\ repeat = FALSE /\ rowlog = <<>> /\ nops = 0
    /\ MeasureIdle /\ AreaIdle /\ RunIdle

\* a JSON file with two records of one authority code under two English names
JsonTwoNamesDataset ==
    Dataset(JsonStream(<<JsonRecord(Str_W1, Str_Bar, JStr(NumStr(MaxYear)), JNum(MaxValue),
                                    Str_dens, Str_Density),
                         JsonRecord(Str_W1, Str_Test, JStr(NumStr(2)), JNum(1),
                                    Str_dens, Str_Density)>>),
            "WelshStatsJSON", JsonCols)

FilteredDatasets == Datasets \cup {JsonOtherNameDataset, JsonTwoNamesDataset}

CallPopulateFiltered ==
    \E ds \in FilteredDatasets : \E ub \in UBFor(ds) :
        Ingest("populate", ds, ub,
               Areas_populate(areas, ds.is, ds.type, ds.cols,
                              filters.af, filters.mf, filters.yf, ub))

NextFiltered == CallPopulateFiltered

SpecFiltered == InitFiltered /\ [][NextFiltered]_vars

\* the Area matches the area filter as the specification reads it
AreaMatchesSpec(a, f) == FilterGiven(f) => AreaContainsToken(a, f.set)

MeasureMatchesSpec(m, f) ==
    FilterGiven(f) => \E t \in f.set : ToLowerStr(t) = ToLowerStr(Measure_getCodename(m))

FilterSound(reg, f) ==
    \A c \in DOMAIN reg :
        /\ AreaMatchesSpec(reg[c], f.af)
        /\ \A k \in DOMAIN reg[c].measures :
              /\ MeasureMatchesSpec(reg[c].measures[k], f.mf)
              /\ \A y \in MeasureYears(reg[c].measures[k]) : f.yf.start <= y /\ y <= f.yf.end

\* C27: from an empty registry, under populate calls of any of the three
\* formats that all use the same area filter F, measure filter M and year
\* filter (s,e) with e > 0, in every reachable state every Area matches F,
\* every Measure codename equals some entry of M case-insensitively when M
\* is non-empty, and every stored year y satisfies s <= y <= e.
C27_FilterSoundness ==
    (~filters.yf.null /\ filters.yf.end > 0) => FilterSound(areas, filters)

\* the same for area filters whose tokens hold no regular-expression
\* metacharacter
C27_FilterSoundnessPlainTokens ==
    (\A t \in filters.af.set : \A i \in 1..Len(t) :
        IsUpper(t[i]) \/ IsLowerAlpha(t[i]) \/ IsDigit(t[i]))
    => C27_FilterSoundness

\* the i-th record of the JSON file of the last call was extracted, passes
\* the year and measure filters, and neither its authority code nor its
\* English name holds a token of the non-empty area filter
JsonRecordFailsFilter(i) ==
    LET x == JsonFieldsOf(i)
    IN  /\ x.err.kind = "none"
        /\ WelshStatsShouldLoad(x.f, filters.mf, filters.yf)
        /\ FilterGiven(filters.af)
        /\ \A t \in filters.af.set :
              ~ContainsIgnoreCase(x.f.code, t) /\ ~ContainsIgnoreCase(x.f.eng, t)

\* an Area of that code was in the registry when the record was read and
\* one of its stored names holds a token of the filter
ExistingAreaMatchesByName(i) ==
    LET code == JsonFieldsOf(i).f.code
    IN  /\ code \in DOMAIN rowlog[i]
        /\ \E l \in DOMAIN rowlog[i][code].names : \E t \in filters.af.set :
              ContainsIgnoreCase(rowlog[i][code].names[l], t)

\* C28: under a non-empty area filter F the Tabular-JSON parser merges a
\* record (that passes the year and measure filters) whose authority code
\* and English name both fail F iff an Area with that code is already in the
\* registry and matches F through one of its stored names; otherwise the
\* record changes nothing.
C28_JsonMergeDependsOnRegistry ==
    (call.op = "populate" /\ call.type = "WelshStatsJSON") =>
        \A i \in 1..(Len(rowlog) - 1) :
            JsonRecordFailsFilter(i) =>
                IF ExistingAreaMatchesByName(i)
                THEN JsonValueSetBy(i)
                ELSE rowlog[i + 1] = rowlog[i]

\* the same for area filters whose tokens hold no regular-expression
\* metacharacter
C28_JsonMergePlainTokens ==
    (\A t \in filters.af.set : \A i \in 1..Len(t) :
        IsUpper(t[i]) \/ IsLowerAlpha(t[i]) \/ IsDigit(t[i]))
    => C28_JsonMergeDependsOnRegistry

\* a record whose code and English name fail the filter was merged into an
\* Area that an earlier file had stored under a matching name
C28_MergedByStoredName ==
    /\ call.op = "populate" /\ call.type = "WelshStatsJSON"
    /\ \E i \in 1..(Len(rowlog) - 1) :
          /\ JsonRecordFailsFilter(i)
          /\ ExistingAreaMatchesByName(i)
          /\ rowlog[i + 1] # rowlog[i]

\* C29: ingesting the same Authority-by-Year CSV file, or the same
\* Tabular-JSON file, twice in succession with the same filters yields a
\* registry equal (same codes, every Area equal by Area equality) to
\* ingesting it once.
C29_IdempotentMeasureIngest ==
    (/\ call.op = "populate" /\ repeat
     /\ call.type \in {"AuthorityByYearCSV", "WelshStatsJSON"}) =>
        RegistryEq(areas, prev)

\* the same for Authority-by-Year files whose lines hold a value for every
\* year column, and for JSON files ingested with no area filter
C29_IdempotentWhenDefined ==
    (/\ call.op = "populate" /\ repeat
     /\ \/ call.type = "AuthorityByYearCSV" /\ ~HasShortRow(call)
        \/ call.type = "WelshStatsJSON" /\ ~FilterGiven(filters.af)) =>
        RegistryEq(areas, prev)

\* a JSON file ingested twice in succession under a non-empty area filter
\* into a registry that the first ingestion changed
C29_JsonTwiceUnderFilter ==
    /\ call.op = "populate" /\ repeat /\ call.type = "WelshStatsJSON"
    /\ FilterGiven(filters.af)
    /\ prev # EmptyMap
    /\ ~HasShortRow(call)
    /\ ~RegistryEq(areas, prev)

\* only year values of Measures of the given codename differ between the
\* registries before and after: the same Areas with the same codes and
\* names, every Measure of another codename as it was, no Measure of another
\* codename added, and the label of a Measure of that codename kept
OnlySeriesOfChanged(before, after, codename) ==
    /\ DOMAIN after = DOMAIN before
    /\ \A c \in DOMAIN before :
          /\ after[c].area_code = before[c].area_code
          /\ after[c].names = before[c].names
          /\ DOMAIN before[c].measures \subseteq DOMAIN after[c].measures
          /\ \A k \in DOMAIN after[c].measures :
                IF k \in DOMAIN before[c].measures
                THEN \/ after[c].measures[k] = before[c].measures[k]
                     \/ /\ Measure_getCodename(before[c].measures[k]) = codename
                        /\ Measure_getCodename(after[c].measures[k]) = codename
                        /\ Measure_getLabel(after[c].measures[k])
                              = Measure_getLabel(before[c].measures[k])
                ELSE Measure_getCodename(after[c].measures[k]) = codename

\* C30: an Authority-by-Year CSV ingestion changes nothing in the registry
\* except year values of the one Measure whose codename is the file's fixed
\* (lowercased) measure code: every Area's code and names, and every Measure
\* of a different codename (its label and whole series), are the same after
\* the call as before it.
C30_ByYearFrame ==
    (call.op = "populate" /\ call.type = "AuthorityByYearCSV") =>
        IF "SINGLE_MEASURE_CODE" \in DOMAIN call.cols
        THEN OnlySeriesOfChanged(prev, areas, ToLowerStr(call.cols["SINGLE_MEASURE_CODE"]))
        ELSE areas = prev

\* the same for registries every Measure of which is stored under its own
\* codename
C30_ByYearFrameKeyedByCodename ==
    (\A c \in DOMAIN prev : \A k \in DOMAIN prev[c].measures :
        Measure_getCodename(prev[c].measures[k]) = k)
    => C30_ByYearFrame

\* an ingestion that stored a year in an Area that held names and a Measure
\* of another codename
C30_StoredBesideOtherMeasure ==
    /\ call.op = "populate" /\ call.type = "AuthorityByYearCSV"
    /\ areas # prev
    /\ \E c \in DOMAIN prev :
          /\ areas[c] # prev[c]
          /\ DOMAIN prev[c].names # {}
          /\ \E k \in DOMAIN prev[c].measures :
                Measure_getCodename(prev[c].measures[k])
                   # ToLowerStr(call.cols["SINGLE_MEASURE_CODE"])

====
